---- MODULE Spec2Model ----
(***************************************************************************)
(* Verification model of the GFN footprint pipeline:                       *)
(*   - DltPipelineRunner.run and the incremental watermark (main.py)       *)
(*   - calculate_incremental_range (main.py)                               *)
(*   - the two transform implementations, DltPipelineRunner._transform     *)
(*     (main.py) and handler_transform (lambda_handlers.py)                *)
(*   - TokenBucketRateLimiter, fetch_year_all_data, fetch_years_parallel   *)
(*     and extract_all_data (pipeline_async.py)                            *)
(*   - GFNClient.get_json under its tenacity retry (client_gfn.py)         *)
(*   - get_record_types_sync and its cache (pipeline_async.py)             *)
(*   - _extract_bulk, the extract step of the Lambda (lambda_handlers.py)  *)
(*   - handler_extract, handler_transform and handler_load chained through *)
(*     S3 and SQS, and the DuckDB and Snowflake sinks of handler_load      *)
(*     (lambda_handlers.py)                                                *)
(* Python None is the integer None; a dict key that is missing is ABSENT.  *)
(***************************************************************************)
EXTENDS Integers, Sequences, FiniteSets, TLC

\* ------------------------------------------------------------------ bounds
\* Years are 0..MaxYear (0 is the falsy integer of Python's truth test).
MaxYear == 2
\* Longest extracted batch given to a transform.
MaxBatch == 2

\* ------------------------------------------------------------- python values
\* Python's None, as returned by dict.get for a missing key.
None == -9

\* A key that a dict does not hold (an integer-valued field).
Missing == -8
\* The same two for the string-valued field record_type.
NoneRT == "<None>"
MissingRT == "<missing>"

\* Python truth value of an integer-or-None (`if x`, `not x`).
Truthy(v) == v # None /\ v # Missing /\ v # 0
\* Python truth value of a string-or-None.
TruthyRT(v) == v # NoneRT /\ v # MissingRT /\ v # ""

Max(a, b) == IF a >= b THEN a ELSE b

Years == 0..MaxYear

\* range(start_year, end_year + 1)
YearRange(s, e) == {y \in Years : s <= y /\ y <= e}

\* --------------------------------------------------------------- runner state
VARIABLES
    last_year,      \* pipeline.state["sources"]["gfn_s3"]["last_year"], per pipeline
    loaded,         \* per destination: years whose fetched facts a load has written
    cfg,            \* constructor arguments of the current / last DltPipelineRunner
    pc,             \* position of run(): idle, extract, stage, load, update
    window,         \* <<actual_start, actual_end>> of the current / last run
    fetched,        \* years of the window whose bulk fetch returned facts
    staged,         \* whether store_staged has written this run's batch
    loaded_dests,   \* destinations loaded so far by this run, in order
    status,         \* metrics["status"] of the last finished run ("none" before)
    errors,         \* metrics["errors"] of the last finished run
    run_start,      \* last_year as it was when the current / last run started
    soda_passed     \* result.passed of validate() in the current / last run

runVars == <<last_year, loaded, cfg, pc, window, fetched, staged, loaded_dests,
             status, errors, run_start, soda_passed>>

\* ---------------------------------------- calculate_incremental_range, alone
VARIABLES
    win_in,         \* the arguments: stored last_year, requested range, force_full
    win_out         \* <<>> before the call, <<result>> after it

winVars == <<win_in, win_out>>

\* ------------------------------------------------------------ transform state
VARIABLES
    raw,            \* the extracted batch given to both transform implementations
    runner_pass,    \* how many times DltPipelineRunner._transform has been applied
    runner_out,     \* footprint_data returned by _transform(raw)
    runner_out2,    \* footprint_data returned by _transform on runner_out
    lambda_pass,    \* how many times handler_transform has been applied
    lambda_out,     \* footprint_data written by handler_transform(raw)
    lambda_out2     \* footprint_data written by handler_transform on lambda_out

trVars == <<raw, runner_pass, runner_out, runner_out2,
            lambda_pass, lambda_out, lambda_out2>>

\* ------------------------------------------ TokenBucketRateLimiter state
VARIABLES
    rate,           \* self.rate, tokens per second
    burst,          \* self.burst
    tokens,         \* self.tokens, in token units (TicksPerSecond units = 1 token)
    last_update,    \* self.last_update, in ticks
    now,            \* time.monotonic(), in ticks
    lock_holder,    \* the task inside `async with self._lock`, or NoTask
    lock_waiters,   \* tasks queued on self._lock, first come first served
    tpc,            \* per task: idle, waiting (for the lock), sleeping, done
    wake,           \* per task: the time its asyncio.sleep(wait_time) ends
    wait_time,      \* per task: the wait_time it computed (0: it did not sleep)
    entered_at,     \* per task: the `now` it read inside the lock, or Never
    order,          \* tasks in the order in which they ran lines 79-86
    returned_at     \* per task: the time its acquire() returned, or Never

limVars == <<rate, burst, tokens, last_update, now, lock_holder, lock_waiters,
             tpc, wake, wait_time, entered_at, order, returned_at>>

\* --------------------------------- one HTTP call: bulk fetch or get_json
VARIABLES
    callee,         \* which function the call is: fetch_year_all_data or get_json
    f_pc,           \* fetch_year_all_data: acquire, loop, returned
    acquired,       \* how often the call has awaited rate_limiter.acquire()
    attempt,        \* the loop variable of `for attempt in range(3)` (next value)
    fetch_log,      \* per request made: the response and the sleep that followed
    fetch_result,   \* what the call returned: none (yet), records, empty
    gj_requests,    \* get_json: requests made so far (tenacity's attempt_number)
    gj_first,       \* get_json: the response to the first attempt
    gj_last,        \* get_json: the response to the latest attempt
    gj_last_sleep,  \* get_json: <<time.sleep in the call, tenacity wait>> after it
    gj_slept,       \* get_json: total seconds slept so far
    gj_result       \* get_json: none (yet), json, raised

httpVars == <<callee, f_pc, acquired, attempt, fetch_log, fetch_result,
              gj_requests, gj_first, gj_last, gj_last_sleep, gj_slept, gj_result>>

\* ------------------------------------------------- extract_all_data state
VARIABLES
    ex_pc,          \* position: idle, discover, countries, years, done, raised
    ex_args,        \* which extract function, start_year, end_year, batch size
    discovered,     \* outcome of record type discovery: none (yet), found, empty
    countries_requested, \* whether the /countries request has been made
    ex_batch,       \* fetch_years_parallel: the loop variable i (offset of the batch)
    yr,             \* per year: requests made by its fetch task and its result
    completed,      \* the years in the order in which their fetch tasks finished
    all_records,    \* fetch_years_parallel: all_records, a fact being its year
    ex_raised       \* the step at which extract_all_data raised, or "none"

exVars == <<ex_pc, ex_args, discovered, countries_requested, ex_batch, yr,
            completed, all_records, ex_raised>>

\* ------------------------------------------- get_record_types_sync state
VARIABLES
    cached_record_types,  \* the module global _cached_record_types
    call_log        \* the calls made so far: what each returned, whether it fetched

cacheVars == <<cached_record_types, call_log>>

\* ------------------------------ extract_all_data: filter and record_types
VARIABLES
    flt_in,         \* all_records, the record_types argument, available_types
    flt_out         \* <<>> before the step, <<the returned dict>> after it

fltVars == <<flt_in, flt_out>>

\* ------------------------------------ the load Lambda and its destination
VARIABLES
    sink_dest,      \* the destination handler_load chooses from the environment
    sink_table,     \* the rows of footprint_data / FOOTPRINT_DATA_RAW, in order
    load_log,       \* the handler_load calls so far: the batch and how it ended
    load_result     \* what the last handler_load call returned, or that it raised

sinkVars == <<sink_dest, sink_table, load_log, load_result>>

\* -------------------------------- the serverless chain: S3 and the queues
VARIABLES
    s3_objects,     \* the keys of the objects in the bucket
    transform_queue, \* messages in gfn-transform-queue (the key each names)
    load_queue,     \* messages in gfn-load-queue (the key each names)
    chain_clock,    \* the wall clock in seconds, from which raw keys are named
    chain_result    \* what the last handler call returned, or that it raised

chainVars == <<s3_objects, transform_queue, load_queue, chain_clock,
               chain_result>>

lambdaVars == <<sinkVars, chainVars>>

\* The network side: rate limiter, bulk fetch, retrying client, extraction,
\* and the Lambda side: S3, SQS and the destination of handler_load.
ioVars == <<limVars, httpVars, exVars, cacheVars, fltVars, lambdaVars>>

vars == <<runVars, winVars, trVars, ioVars>>

\* What the runner's steps leave alone.
notRunVars == <<winVars, trVars, ioVars>>

Pipelines == {"duckdb", "snowflake"}

\* DltPipelineRunner._init_pipelines: the destinations, in dict order.
init_pipelines(destination) ==
    IF destination = "both" THEN <<"duckdb", "snowflake">> ELSE <<destination>>

SeqRange(s) == {s[i] : i \in DOMAIN s}

SodaModes == {"off", "strict", "warn_only"}

Configs ==
    [destination : {"duckdb", "snowflake", "both"},
     start_year : Years, end_year : Years,
     full_refresh : BOOLEAN, soda : SodaModes]

\* get_incremental_state: the stored last_year of the pipeline, None when unset.
get_incremental_state(pipeline) == last_year[pipeline]

calculate_incremental_range_NoMax(ly, requested_start, requested_end, force_full) ==
    IF force_full THEN <<requested_start, requested_end>>
    ELSE IF Truthy(ly) /\ ly >= requested_start
         THEN <<ly - 1, requested_end>>
         ELSE <<requested_start, requested_end>>

calculate_incremental_range_IgnoreFull(ly, requested_start, requested_end, force_full) ==
    IF Truthy(ly) /\ ly >= requested_start
    THEN <<Max(ly - 1, requested_start), requested_end>>
    ELSE <<requested_start, requested_end>>

\* calculate_incremental_range, on the last_year read from the primary pipeline.
calculate_incremental_range(ly, requested_start, requested_end, force_full) ==
    IF force_full THEN <<requested_start, requested_end>>
    ELSE IF Truthy(ly) /\ ly >= requested_start
         THEN <<Max(ly - 1, requested_start), requested_end>>
         ELSE <<requested_start, requested_end>>

\* SodaStagingValidator.validate as constructed by the runner
\* (fail_on_error = not soda_warn_only): raises when a check failed and the
\* validator is not warn-only, returns the result otherwise.
validate(soda, checks_pass) ==
    IF checks_pass THEN "passed"
    ELSE IF soda = "strict" THEN "raise" ELSE "not_passed"

\* DltPipelineRunner._finalize: records the status, run() returns.
finalize(st, errs) ==
    /\ status' = st
    /\ errors' = errs
    /\ pc' = "idle"

RunInit ==
    /\ last_year = [p \in Pipelines |-> None]
    /\ loaded = [p \in Pipelines |-> {}]
    /\ cfg \in Configs
    /\ pc = "idle"
    /\ window = <<cfg.start_year, cfg.end_year>>
    /\ fetched = {}
    /\ staged = FALSE
    /\ loaded_dests = <<>>
    /\ status = "none"
    /\ errors = <<>>
    /\ run_start = last_year
    /\ soda_passed = "not_run"

\* DltPipelineRunner(...).run(), up to the window computation (step 1).
StartRun(c) ==
    /\ pc = "idle"
    /\ cfg' = c
    /\ window' = calculate_incremental_range(
                    get_incremental_state(init_pipelines(c.destination)[1]),
                    c.start_year, c.end_year, c.full_refresh)
    /\ pc' = "extract"
    /\ fetched' = {}
    /\ staged' = FALSE
    /\ loaded_dests' = <<>>
    /\ run_start' = last_year
    /\ soda_passed' = "not_run"
    /\ UNCHANGED <<last_year, loaded, status, errors>>
    /\ UNCHANGED notRunVars

\* A run() whose try block does not cover the extraction: the exception of
\* _extract leaves run() without a result.
Extract_Escapes ==
    /\ pc = "extract"
    /\ \/ /\ pc' = "escaped"
          /\ UNCHANGED <<fetched, status, errors>>
       \/ \E ok \in SUBSET YearRange(window[1], window[2]) :
            /\ fetched' = ok
            /\ IF ok = {} THEN finalize("no_data", <<>>)
               ELSE /\ pc' = "stage"
                    /\ UNCHANGED <<status, errors>>
    /\ UNCHANGED <<last_year, loaded, cfg, window, staged, loaded_dests,
                   run_start, soda_passed>>
    /\ UNCHANGED notRunVars

\* run() step 2: _extract. extract_all_data raises (no API key, discovery or
\* country list failed) or returns the facts of the years whose bulk fetch
\* succeeded; a year whose fetch failed contributes an empty list.
Extract ==
    /\ pc = "extract"
    /\ \/ /\ finalize("failed", <<"extract">>)
          /\ UNCHANGED fetched
       \/ \E ok \in SUBSET YearRange(window[1], window[2]) :
            /\ fetched' = ok
            /\ IF ok = {} THEN finalize("no_data", <<>>)
               ELSE /\ pc' = "stage"
                    /\ UNCHANGED <<status, errors>>
    /\ UNCHANGED <<last_year, loaded, cfg, window, staged, loaded_dests,
                   run_start, soda_passed>>
    /\ UNCHANGED notRunVars

\* What the runner does with the validator's answer: an exception ends the
\* run in the except branch, a failed result of a validator that is not
\* warn-only ends it with soda_failed, anything else goes on to store_staged.
after_validate(soda, v) ==
    IF v = "raise" THEN "except"
    ELSE IF v = "not_passed" /\ soda # "warn_only" THEN "soda_failed"
    ELSE "go_on"

\* A runner that goes on to store and load whatever the checks said.
Stage_IgnoreChecks ==
    /\ pc = "stage"
    /\ \E checks_pass \in BOOLEAN :
          /\ soda_passed' = IF cfg.soda = "off" THEN "not_run"
                            ELSE IF checks_pass THEN "passed" ELSE "failed"
          /\ staged' = TRUE
          /\ pc' = "load"
          /\ UNCHANGED <<status, errors>>
    /\ UNCHANGED <<last_year, loaded, cfg, window, fetched, loaded_dests,
                   run_start>>
    /\ UNCHANGED notRunVars

\* run() steps 3-6: store_raw, _transform, Soda checks, store_staged.
Stage ==
    /\ pc = "stage"
    /\ \/ /\ finalize("failed", <<"s3">>)       \* store_raw raised
          /\ UNCHANGED <<staged, soda_passed>>
       \/ \E checks_pass \in BOOLEAN :
            LET v == IF cfg.soda = "off" THEN "passed" ELSE validate(cfg.soda, checks_pass)
                todo == after_validate(cfg.soda, v)
            IN  /\ soda_passed' = IF cfg.soda = "off" THEN "not_run"
                                  ELSE IF checks_pass THEN "passed" ELSE "failed"
                /\ IF todo = "except"
                   THEN finalize("failed", <<"soda">>) /\ UNCHANGED staged
                   ELSE IF todo = "soda_failed"
                   THEN finalize("soda_failed", <<>>) /\ UNCHANGED staged
                   ELSE \/ /\ staged' = TRUE
                           /\ pc' = "load"
                           /\ UNCHANGED <<status, errors>>
                        \/ /\ finalize("failed", <<"s3">>)  \* store_staged raised
                           /\ UNCHANGED staged
    /\ UNCHANGED <<last_year, loaded, cfg, window, fetched, loaded_dests,
                   run_start>>
    /\ UNCHANGED notRunVars

\* A variant that calls _update_state when the load raised as well (as in a
\* finally block).
LoadDest_UpdateInFinally ==
    /\ pc = "load"
    /\ LET dests == init_pipelines(cfg.destination)
           d == dests[Len(loaded_dests) + 1]
       IN  \/ /\ loaded' = [loaded EXCEPT ![d] =
                    IF cfg.full_refresh THEN fetched ELSE @ \cup fetched]
              /\ loaded_dests' = Append(loaded_dests, d)
              /\ pc' = IF Len(loaded_dests') = Len(dests) THEN "update" ELSE "load"
              /\ UNCHANGED <<status, errors, last_year>>
           \/ /\ finalize("failed", <<"load">>)
              /\ last_year' = [p \in Pipelines |->
                                  IF p \in SeqRange(dests) THEN window[2]
                                  ELSE last_year[p]]
              /\ UNCHANGED <<loaded, loaded_dests>>
    /\ UNCHANGED <<cfg, window, fetched, staged, run_start, soda_passed>>
    /\ UNCHANGED notRunVars

\* A variant that records the watermark of each destination as soon as that
\* destination is loaded.
LoadDest_UpdateInLoop ==
    /\ pc = "load"
    /\ LET dests == init_pipelines(cfg.destination)
           d == dests[Len(loaded_dests) + 1]
       IN  \/ /\ loaded' = [loaded EXCEPT ![d] =
                    IF cfg.full_refresh THEN fetched ELSE @ \cup fetched]
              /\ loaded_dests' = Append(loaded_dests, d)
              /\ last_year' = [last_year EXCEPT ![d] = window[2]]
              /\ pc' = IF Len(loaded_dests') = Len(dests) THEN "update" ELSE "load"
              /\ UNCHANGED <<status, errors>>
           \/ /\ finalize("failed", <<"load">>)
              /\ UNCHANGED <<loaded, loaded_dests, last_year>>
    /\ UNCHANGED <<cfg, window, fetched, staged, run_start, soda_passed>>
    /\ UNCHANGED notRunVars

\* run() step 7: one iteration of the load loop, _load_with_dlt for the next
\* destination: pipeline.run merges (replaces, on full refresh) the batch or raises.
LoadDest ==
    /\ pc = "load"
    /\ LET dests == init_pipelines(cfg.destination)
           d == dests[Len(loaded_dests) + 1]
       IN  \/ /\ loaded' = [loaded EXCEPT ![d] =
                    IF cfg.full_refresh THEN fetched ELSE @ \cup fetched]
              /\ loaded_dests' = Append(loaded_dests, d)
              /\ pc' = IF Len(loaded_dests') = Len(dests) THEN "update" ELSE "load"
              /\ UNCHANGED <<status, errors>>
           \/ /\ finalize("failed", <<"load">>)
              /\ UNCHANGED <<loaded, loaded_dests>>
    /\ UNCHANGED <<last_year, cfg, window, fetched, staged, run_start,
                   soda_passed>>
    /\ UNCHANGED notRunVars

\* A variant that stores the first year of the window instead of the last.
UpdateState_StoresStart ==
    /\ pc = "update"
    /\ last_year' = [p \in Pipelines |->
                        IF p \in SeqRange(init_pipelines(cfg.destination))
                        THEN window[1] ELSE last_year[p]]
    /\ finalize("success", <<>>)
    /\ UNCHANGED <<loaded, cfg, window, fetched, staged, loaded_dests,
                   run_start, soda_passed>>
    /\ UNCHANGED notRunVars

\* run() step 8 and return: _update_state(actual_end), then _finalize("success").
UpdateState ==
    /\ pc = "update"
    /\ last_year' = [p \in Pipelines |->
                        IF p \in SeqRange(init_pipelines(cfg.destination))
                        THEN window[2] ELSE last_year[p]]
    /\ finalize("success", <<>>)
    /\ UNCHANGED <<loaded, cfg, window, fetched, staged, loaded_dests,
                   run_start, soda_passed>>
    /\ UNCHANGED notRunVars

\* The runner at rest with its default arguments, for the specifications that
\* do not run it.
RunQuiet ==
    /\ last_year = [p \in Pipelines |-> None]
    /\ loaded = [p \in Pipelines |-> {}]
    /\ cfg = [destination |-> "duckdb", start_year |-> 0, end_year |-> MaxYear,
              full_refresh |-> FALSE, soda |-> "off"]
    /\ pc = "idle"
    /\ window = <<cfg.start_year, cfg.end_year>>
    /\ fetched = {}
    /\ staged = FALSE
    /\ loaded_dests = <<>>
    /\ status = "none"
    /\ errors = <<>>
    /\ run_start = last_year
    /\ soda_passed = "not_run"

WinQuiet ==
    /\ win_in = [last_year |-> None, requested_start |-> 0, requested_end |-> 0,
                 force_full |-> FALSE]
    /\ win_out = <<>>

TrQuiet ==
    /\ raw = <<>>
    /\ runner_pass = 0 /\ runner_out = <<>> /\ runner_out2 = <<>>
    /\ lambda_pass = 0 /\ lambda_out = <<>> /\ lambda_out2 = <<>>

\* ------------------------------------------------- rate limiter constants
\* Concurrent fetch tasks sharing one limiter.
NumTasks == 3
Tasks == 1..NumTasks
NoTask == 0
\* Idle time the clock may run for, in ticks.
MaxTime == 4
\* Largest burst a limiter is built with.
MaxBurst == 2
\* ExtractionConfig.requests_per_second, the default rate.
requests_per_second == 2
\* The rates a limiter is built with: the default and the 1.0 of the tests.
Rates == {1, requests_per_second}
\* The clock counts token periods of the default rate (half seconds), so
\* that with these rates every wait_time is a whole number of ticks; tokens
\* are counted in the same unit (TicksPerSecond units make one token).
TicksPerSecond == requests_per_second
Bursts == 1..MaxBurst
Never == -1

Min(a, b) == IF a <= b THEN a ELSE b

\* A limiter that starts with an empty bucket.
TokenBucketRateLimiter_Empty(r, b) ==
    [rate |-> r, burst |-> b, tokens |-> 0, last_update |-> 0]

\* TokenBucketRateLimiter.__init__ at time 0
TokenBucketRateLimiter(r, b) ==
    [rate |-> r, burst |-> b, tokens |-> b * TicksPerSecond, last_update |-> 0]

LimTasksQuiet ==
    /\ now = 0
    /\ lock_holder = NoTask
    /\ lock_waiters = <<>>
    /\ tpc = [t \in Tasks |-> "idle"]
    /\ wake = [t \in Tasks |-> Never]
    /\ wait_time = [t \in Tasks |-> 0]
    /\ entered_at = [t \in Tasks |-> Never]
    /\ order = <<>>
    /\ returned_at = [t \in Tasks |-> Never]

\* A limiter with the ExtractionConfig defaults that nobody calls.
LimQuiet ==
    /\ rate = requests_per_second /\ burst = MaxBurst
    /\ tokens = MaxBurst * TicksPerSecond /\ last_update = 0
    /\ LimTasksQuiet

\* No response yet.
NoResponse == [kind |-> "none", retry_after |-> None]

\* No HTTP call in progress.
HttpQuiet ==
    /\ callee = "none"
    /\ f_pc = "acquire" /\ acquired = 0 /\ attempt = 0
    /\ fetch_log = <<>> /\ fetch_result = "none"
    /\ gj_requests = 0 /\ gj_first = NoResponse /\ gj_last = NoResponse
    /\ gj_last_sleep = <<0, 0>> /\ gj_slept = 0 /\ gj_result = "none"

\* A fetch task that has not started.
NotFetched == [attempt |-> 0, result |-> "none"]

\* extract_all_data not called.
ExQuiet ==
    /\ ex_pc = "idle"
    /\ ex_args = [impl |-> "extract_all_data", start_year |-> 0, end_year |-> 0,
                  batch_size |-> 1]
    /\ discovered = "none"
    /\ countries_requested = FALSE
    /\ ex_batch = 0
    /\ yr = [y \in Years |-> NotFetched]
    /\ completed = <<>>
    /\ all_records = <<>>
    /\ ex_raised = "none"

\* _cached_record_types: dict[str, str] | None = None
NoCache == "None"
\* The empty dict.
EmptyMapping == "{}"

\* Nobody has asked for the record types.
CacheQuiet ==
    /\ cached_record_types = NoCache
    /\ call_log = <<>>

\* The tail of extract_all_data not reached.
FltQuiet ==
    /\ flt_in = [all_records |-> <<>>, record_types |-> {}, available_types |-> {}]
    /\ flt_out = <<>>

\* No load has run: the local destination, its table not yet created.
SinkQuiet ==
    /\ sink_dest = "duckdb"
    /\ sink_table = <<>>
    /\ load_log = <<>>
    /\ load_result = [status |-> "none", records_loaded |-> 0]

\* An empty bucket and empty queues.
ChainQuiet ==
    /\ s3_objects = {}
    /\ transform_queue = <<>>
    /\ load_queue = <<>>
    /\ chain_clock = 0
    /\ chain_result = [handler |-> "none", status |-> "none", s3_key |-> <<>>]

LambdaQuiet == SinkQuiet /\ ChainQuiet

IoQuiet ==
    LimQuiet /\ HttpQuiet /\ ExQuiet /\ CacheQuiet /\ FltQuiet /\ LambdaQuiet

Init == RunInit /\ WinQuiet /\ TrQuiet /\ IoQuiet

Next ==
    \/ StartRun(cfg)
    \/ Extract
    \/ Stage
    \/ LoadDest
    \/ UpdateState

\* Re-runs of one configured pipeline, starting with no stored watermark.
Spec == Init /\ [][Next]_vars

\* Runs of one installation whose arguments change from run to run: every
\* run is a new DltPipelineRunner with its own requested range and
\* full_refresh, over the pipeline state the earlier runs left. The
\* destination and the Soda mode (off) stay as first configured.
RunConfigs ==
    {c \in Configs : c.soda = cfg.soda /\ c.destination = cfg.destination}

RunsInit ==
    /\ RunInit
    /\ cfg.soda = "off"

InitRuns == RunsInit /\ WinQuiet /\ TrQuiet /\ IoQuiet

NextRuns ==
    \/ \E c \in RunConfigs : StartRun(c)
    \/ Extract
    \/ Stage
    \/ LoadDest
    \/ UpdateState

SpecRuns == InitRuns /\ [][NextRuns]_vars

\* Runs of one installation whose destination changes from run to run
\* (--destination duckdb, snowflake or both), over the same pipeline state
\* directory; the requested range, full_refresh and the Soda mode stay as
\* first configured.
DestConfigs ==
    {c \in Configs : /\ c.start_year = cfg.start_year
                     /\ c.end_year = cfg.end_year
                     /\ c.full_refresh = cfg.full_refresh
                     /\ c.soda = cfg.soda}

NextDests ==
    \/ \E c \in DestConfigs : StartRun(c)
    \/ Extract
    \/ Stage
    \/ LoadDest
    \/ UpdateState

SpecDests == InitRuns /\ [][NextDests]_vars

\* ------------------------------------------------------------ runner claims
ConfiguredPipelines == SeqRange(init_pipelines(cfg.destination))

\* C1: the watermark last_year is written only after the load step returned
\* without error for every configured destination, and after a run that ended
\* failed, no_data or with a quality failure every watermark is what it was
\* when the run started.
C1_WatermarkOnlyAfterLoad ==
    /\ [][last_year' # last_year =>
            /\ pc = "update"
            /\ SeqRange(loaded_dests) = ConfiguredPipelines]_vars
    /\ [](pc = "idle" /\ status \in {"failed", "no_data", "soda_failed"}
            => last_year = run_start)

\* A run of destination "both" failed in the load of the second destination
\* after an earlier run had stored a watermark.
C1_Witness ==
    /\ pc = "idle" /\ status = "failed" /\ errors = <<"load">>
    /\ Len(loaded_dests) = 1
    /\ last_year["duckdb"] # None

\* C2: when the load step of an incremental run failed, the next incremental
\* run of the same configuration computes the same (actual_start, actual_end).
C2_RetrySameWindow ==
    [][(/\ pc = "idle" /\ pc' = "extract"
        /\ status = "failed" /\ errors = <<"load">>
        /\ ~cfg.full_refresh /\ cfg' = cfg)
       => window' = window]_vars

\* The retry of a failed load has started, and its window is an incremental
\* one (it starts after requested_start).
C2_Witness ==
    /\ pc = "extract" /\ status = "failed" /\ errors = <<"load">>
    /\ ~cfg.full_refresh
    /\ window[1] > cfg.start_year

\* C3: over incremental re-runs of one requested range there is no silent gap:
\* every year from requested_start up to the stored watermark has been fetched
\* successfully and loaded by some run, or is still inside the window the next
\* run fetches again.
C3_NoSilentGap ==
    ~cfg.full_refresh =>
        \A p \in ConfiguredPipelines :
            last_year[p] # None =>
                \A y \in YearRange(cfg.start_year, last_year[p]) :
                    \/ y \in loaded[p]
                    \/ y >= Max(last_year[p] - 1, cfg.start_year)

C36_WatermarksInStep ==
    /\ pc = "idle" /\ status = "success" =>
          \A p \in ConfiguredPipelines : last_year[p] = window[2]
    /\ pc = "idle" /\ status # "none" /\ cfg.destination = "both" =>
          last_year["duckdb"] = last_year["snowflake"]

\* --------------------------------------- calculate_incremental_range, alone
WinInputs ==
    [last_year : Years \cup {None}, requested_start : Years,
     requested_end : Years, force_full : BOOLEAN]

WinInit ==
    /\ win_in \in WinInputs
    /\ win_out = <<>>

\* One call of calculate_incremental_range on a pipeline whose stored
\* last_year is win_in.last_year.
CalcWindow ==
    /\ win_out = <<>>
    /\ win_out' = <<calculate_incremental_range(
                        win_in.last_year, win_in.requested_start,
                        win_in.requested_end, win_in.force_full)>>
    /\ UNCHANGED <<win_in, runVars, trVars, ioVars>>

InitWindow == WinInit /\ RunQuiet /\ TrQuiet /\ IoQuiet

NextWindow == CalcWindow

SpecWindow == InitWindow /\ [][NextWindow]_vars

Fact(cc, y, rt, c, v) ==
    [country_code |-> cc, year |-> y, record_type |-> rt, carbon |-> c,
     value |-> v, transformed_at |-> Missing, carbon_pct_of_total |-> Missing]

\* Extracted facts: every combination of present and lacking key fields with
\* two values, and one key with the carbon / value cases of the percentage.
FactInputs ==
    {Fact(cc, y, rt, None, v) :
        cc \in {None, 1}, y \in {None, 2020},
        rt \in {MissingRT, NoneRT, "unknown", "EF"}, v \in {100, 200}}
    \cup
    {Fact(1, 2020, "EF", cv[1], cv[2]) :
        cv \in {<<None, None>>, <<100, None>>, <<100, 400>>, <<0, 400>>,
                <<100, 0>>, <<100, -400>>, <<1, 3>>, <<2, 3>>,
                <<1, 32>>, <<3, 32>>}}

Batches == UNION {[1..n -> FactInputs] : n \in 0..MaxBatch}

\* r.get("record_type")
get_record_type(r) ==
    IF r.record_type = MissingRT THEN NoneRT ELSE r.record_type

\* The (country_code, year, record_type) key of a fact as its readers take it
\* (r.get of each column: unique_key check, sink primary key).
FactKey(r) == <<r.country_code, r.year, get_record_type(r)>>

\* A validity test that forgets record_type.
runner_valid_NoRecordType(r) ==
    Truthy(r.country_code) /\ Truthy(r.year)

\* _transform: all([r.get("country_code"), r.get("year"), r.get("record_type")])
runner_valid(r) ==
    Truthy(r.country_code) /\ Truthy(r.year) /\ TruthyRT(r.record_type)

\* _transform: the loop over data["footprint_data"], from index i on, with the
\* set seen_records and the list footprint_data built so far.
RECURSIVE transform_loop(_, _, _, _, _)
transform_loop(rs, i, seen_records, footprint_data, transformed_at) ==
    IF i > Len(rs) THEN footprint_data
    ELSE LET r == rs[i]
             key == <<r.country_code, r.year, r.record_type>>
         IN  IF ~runner_valid(r)
             THEN transform_loop(rs, i + 1, seen_records, footprint_data,
                                 transformed_at)
             ELSE IF key \in seen_records
             THEN transform_loop(rs, i + 1, seen_records, footprint_data,
                                 transformed_at)
             ELSE transform_loop(rs, i + 1, seen_records \cup {key},
                     Append(footprint_data,
                            [r EXCEPT !.transformed_at = transformed_at]),
                     transformed_at)

\* DltPipelineRunner._transform, the footprint_data of its result.
transform(rs, transformed_at) == transform_loop(rs, 1, {}, <<>>, transformed_at)

\* Python round(n / d, 0) for d > 0: to the nearest integer, ties to even.
RoundHalfEven(n, d) ==
    LET q == n \div d
        r == n % d
    IN  IF 2 * r < d THEN q
        ELSE IF 2 * r > d THEN q + 1
        ELSE IF q % 2 = 0 THEN q ELSE q + 1

\* A percentage that treats carbon 0 as absent (`if carbon and value ...`).
carbon_pct_of_total_TruthyCarbon(carbon, value) ==
    IF Truthy(carbon) /\ Truthy(value) /\ value > 0
    THEN RoundHalfEven(carbon * 10000, value)
    ELSE None

\* handler_transform: round(carbon / value * 100, 2) in hundredths, or None.
carbon_pct_of_total(carbon, value) ==
    IF carbon # None /\ Truthy(value) /\ value > 0
    THEN RoundHalfEven(carbon * 10000, value)
    ELSE None

\* handler_transform: not record.get("country_code") or not record.get("year")
lambda_invalid(record) ==
    ~Truthy(record.country_code) \/ ~Truthy(record.year)

\* handler_transform: the dedup key, record.get("record_type", "unknown").
lambda_key(record) ==
    <<record.country_code, record.year,
      IF record.record_type = MissingRT THEN "unknown" ELSE record.record_type>>

\* An enrichment that stores the percentage under the key "carbon".
enrich_WrongKey(record, transformed_at) ==
    [record EXCEPT !.transformed_at = transformed_at,
                   !.carbon = carbon_pct_of_total(record.carbon, record.value),
                   !.carbon_pct_of_total = None]

\* handler_transform: the enriched record.
enrich(record, transformed_at) ==
    [record EXCEPT !.transformed_at = transformed_at,
                   !.carbon_pct_of_total =
                        carbon_pct_of_total(record.carbon, record.value)]

\* handler_transform: the loop over footprint_data, from index i on.
RECURSIVE handler_loop(_, _, _, _, _)
handler_loop(rs, i, seen, transformed, transformed_at) ==
    IF i > Len(rs) THEN transformed
    ELSE LET record == rs[i]
         IN  IF lambda_invalid(record)
             THEN handler_loop(rs, i + 1, seen, transformed, transformed_at)
             ELSE IF lambda_key(record) \in seen
             THEN handler_loop(rs, i + 1, seen, transformed, transformed_at)
             ELSE handler_loop(rs, i + 1, seen \cup {lambda_key(record)},
                     Append(transformed, enrich(record, transformed_at)),
                     transformed_at)

\* handler_transform, the footprint_data of the object it writes.
handler_transform(rs, transformed_at) == handler_loop(rs, 1, {}, <<>>, transformed_at)

TrInit ==
    /\ raw \in Batches
    /\ runner_pass = 0 /\ runner_out = <<>> /\ runner_out2 = <<>>
    /\ lambda_pass = 0 /\ lambda_out = <<>> /\ lambda_out2 = <<>>

\* runner._transform(raw)
RunnerTransform ==
    /\ runner_pass = 0
    /\ runner_out' = transform(raw, 1)
    /\ runner_pass' = 1
    /\ UNCHANGED <<raw, runner_out2, lambda_pass, lambda_out, lambda_out2,
                   runVars, winVars, ioVars>>

\* runner._transform on its own output, at a later time.
RunnerTransformAgain ==
    /\ runner_pass = 1
    /\ runner_out2' = transform(runner_out, 2)
    /\ runner_pass' = 2
    /\ UNCHANGED <<raw, runner_out, lambda_pass, lambda_out, lambda_out2,
                   runVars, winVars, ioVars>>

\* handler_transform on the object holding raw
HandlerTransform ==
    /\ lambda_pass = 0
    /\ lambda_out' = handler_transform(raw, 1)
    /\ lambda_pass' = 1
    /\ UNCHANGED <<raw, lambda_out2, runner_pass, runner_out, runner_out2,
                   runVars, winVars, ioVars>>

\* handler_transform on the object it wrote, at a later time.
HandlerTransformAgain ==
    /\ lambda_pass = 1
    /\ lambda_out2' = handler_transform(lambda_out, 2)
    /\ lambda_pass' = 2
    /\ UNCHANGED <<raw, lambda_out, runner_pass, runner_out, runner_out2,
                   runVars, winVars, ioVars>>

InitTransform == TrInit /\ RunQuiet /\ WinQuiet /\ IoQuiet

NextTransform ==
    \/ RunnerTransform
    \/ RunnerTransformAgain
    \/ HandlerTransform
    \/ HandlerTransformAgain

SpecTransform == InitTransform /\ [][NextTransform]_vars

\* --------------------------------------------------------- transform claims
\* A fact has a country code, a year and a record type.
HasAllThree(r) ==
    /\ r.country_code \notin {None, Missing}
    /\ r.year \notin {None, Missing}
    /\ r.record_type \notin {NoneRT, MissingRT}

\* The output fact o is the input fact r, apart from the fields a transform adds.
SameFact(o, r) ==
    /\ o.country_code = r.country_code /\ o.year = r.year
    /\ o.record_type = r.record_type
    /\ o.carbon = r.carbon /\ o.value = r.value

\* Index of the first fact of input with the key of fact o.
FirstWithKey(input, o) ==
    CHOOSE i \in DOMAIN input :
        /\ FactKey(input[i]) = FactKey(o)
        /\ \A j \in 1..(i - 1) : FactKey(input[j]) # FactKey(o)

DedupHolds(input, out) ==
    /\ \A i, j \in DOMAIN out : i # j => FactKey(out[i]) # FactKey(out[j])
    /\ \A k \in DOMAIN out :
         /\ \E i \in DOMAIN input : FactKey(input[i]) = FactKey(out[k])
         /\ SameFact(out[k], input[FirstWithKey(input, out[k])])
    /\ \A i \in DOMAIN input :
         HasAllThree(input[i]) =>
            \E k \in DOMAIN out : FactKey(out[k]) = FactKey(input[i])

\* C6: the facts output by either transform hold no two records with the same
\* (country_code, year, record_type) key, and the survivor of each key is the
\* first fact with that key in input order.
C6_DedupInvariant ==
    /\ runner_pass >= 1 => DedupHolds(raw, runner_out)
    /\ lambda_pass >= 1 => DedupHolds(raw, lambda_out)

\* The indices of the facts that have all three key fields and are the first
\* of their key.
KeptIndices(input) ==
    {i \in DOMAIN input :
        /\ HasAllThree(input[i])
        /\ \A j \in 1..(i - 1) : FactKey(input[j]) # FactKey(input[i])}

\* The k-th smallest index of the set idx.
NthIndex(idx, k) ==
    CHOOSE i \in idx : Cardinality({j \in idx : j < i}) = k - 1

\* C7: _transform drops every fact lacking a country code, a year or a record
\* type and keeps every other fact that is the first of its key, in input order.
C7_RunnerKeepsFirstValid ==
    runner_pass >= 1 =>
        /\ Len(runner_out) = Cardinality(KeptIndices(raw))
        /\ \A k \in DOMAIN runner_out :
             SameFact(runner_out[k], raw[NthIndex(KeptIndices(raw), k)])

\* A fact without the record_type key was dropped and the fact after it kept.
C7_Witness ==
    /\ runner_pass >= 1
    /\ Len(raw) = 2
    /\ raw[1].record_type = MissingRT
    /\ raw[1].country_code # None /\ raw[1].year # None
    /\ Len(runner_out) = 1
    /\ SameFact(runner_out[1], raw[2])

\* C8: handler_transform drops every fact lacking a country code, a year or a
\* record type, so no fact without a record type is in its output.
C8_HandlerRequiresAllThree ==
    lambda_pass >= 1 =>
        \A k \in DOMAIN lambda_out : HasAllThree(lambda_out[k])

\* C9: in every fact output by handler_transform carbon_pct_of_total is null
\* exactly when carbon is null, value is null or value <= 0, and is otherwise
\* carbon / value * 100 to the nearest hundredth.
C9_CarbonPct ==
    lambda_pass >= 1 =>
        \A k \in DOMAIN lambda_out :
            LET f == lambda_out[k]
                p == f.carbon_pct_of_total
                d == p * f.value - f.carbon * 10000
            IN  /\ p # Missing
                /\ (p = None) <=>
                        (f.carbon = None \/ f.value = None \/ f.value <= 0)
                /\ p # None => 2 * (IF d >= 0 THEN d ELSE 0 - d) <= f.value

\* An output fact whose percentage was rounded up (2/3 gives 66.67) beside one
\* whose percentage is null.
C9_Witness ==
    /\ lambda_pass >= 1
    /\ \E k \in DOMAIN lambda_out : lambda_out[k].carbon_pct_of_total = 6667
    /\ \E k \in DOMAIN lambda_out : lambda_out[k].carbon_pct_of_total = None

\* The facts of a batch with transformed_at left out of the comparison.
IgnoringTransformedAt(facts) ==
    [k \in DOMAIN facts |-> [facts[k] EXCEPT !.transformed_at = None]]

\* C10: a transform applied to its own output returns the same sequence of
\* facts with the same fields and the same percentage, transformed_at aside.
C10_Idempotent ==
    /\ runner_pass = 2 =>
          IgnoringTransformedAt(runner_out2) = IgnoringTransformedAt(runner_out)
    /\ lambda_pass = 2 =>
          IgnoringTransformedAt(lambda_out2) = IgnoringTransformedAt(lambda_out)

\* Both transforms have run twice on a batch of which they kept two facts, one
\* of them with a percentage.
C10_Witness ==
    /\ runner_pass = 2 /\ lambda_pass = 2
    /\ Len(runner_out2) = 2 /\ Len(lambda_out2) = 2
    /\ \E k \in DOMAIN lambda_out2 :
          lambda_out2[k].carbon_pct_of_total \notin {None, Missing}
    /\ lambda_out2[1].transformed_at # lambda_out[1].transformed_at

\* r.get("carbon_pct_of_total") of an output fact
get_carbon_pct(r) ==
    IF r.carbon_pct_of_total = Missing THEN None ELSE r.carbon_pct_of_total

\* C34: the two transforms agree: for every raw batch _transform and
\* handler_transform output the same sequence of surviving keys and the
\* same carbon_pct_of_total for each surviving fact.
C34_TransformsAgree ==
    runner_pass >= 1 /\ lambda_pass >= 1 =>
        /\ Len(runner_out) = Len(lambda_out)
        /\ \A k \in DOMAIN runner_out :
              /\ FactKey(runner_out[k]) = FactKey(lambda_out[k])
              /\ get_carbon_pct(runner_out[k]) = get_carbon_pct(lambda_out[k])

\* ------------------------------------------------- TokenBucketRateLimiter
\* (1 - self.tokens) / self.rate, in ticks
WaitTime(tok, r) == (TicksPerSecond - tok) \div r

\* A refill that forgets the cap of the bucket.
Refill_Uncapped(tok, elapsed, r, b) == tok + elapsed * r

\* min(self.burst, self.tokens + elapsed * self.rate)
Refill(tok, elapsed, r, b) == Min(b * TicksPerSecond, tok + elapsed * r)

\* Lines 79-89 of acquire(), run by task t once it holds the lock: refill,
\* then either take a token and return (leaving the lock) or start to sleep
\* with the lock held.
acquire_body(t) ==
    LET refilled == Refill(tokens, now - last_update, rate, burst) IN
    /\ last_update' = now
    /\ entered_at' = [entered_at EXCEPT ![t] = now]
    /\ order' = Append(order, t)
    /\ IF refilled >= TicksPerSecond
          THEN /\ tokens' = refilled - TicksPerSecond
               /\ tpc' = [tpc EXCEPT ![t] = "done"]
               /\ returned_at' = [returned_at EXCEPT ![t] = now]
               /\ lock_holder' = NoTask
               /\ UNCHANGED <<wake, wait_time>>
          ELSE /\ tokens' = refilled
               /\ tpc' = [tpc EXCEPT ![t] = "sleeping"]
               /\ wait_time' = [wait_time EXCEPT ![t] = WaitTime(refilled, rate)]
               /\ wake' = [wake EXCEPT ![t] = now + WaitTime(refilled, rate)]
               /\ lock_holder' = t
               /\ UNCHANGED returned_at

limOthers ==
    <<runVars, winVars, trVars, httpVars, exVars, cacheVars, fltVars,
      lambdaVars>>

\* A task that calls acquire() without looking at the lock.
AcquireCall_NoLock(t) ==
    /\ tpc[t] = "idle"
    /\ acquire_body(t)
    /\ UNCHANGED <<rate, burst, now, lock_waiters>>
    /\ UNCHANGED limOthers

\* Task t calls acquire(): asyncio.Lock gives it the lock at once when the
\* lock is free and nobody is queued, and queues it otherwise.
AcquireCall(t) ==
    /\ tpc[t] = "idle"
    /\ IF lock_holder = NoTask /\ lock_waiters = <<>>
          THEN /\ acquire_body(t)
               /\ UNCHANGED lock_waiters
          ELSE /\ tpc' = [tpc EXCEPT ![t] = "waiting"]
               /\ lock_waiters' = Append(lock_waiters, t)
               /\ UNCHANGED <<tokens, last_update, lock_holder, wake, wait_time,
                              entered_at, order, returned_at>>
    /\ UNCHANGED <<rate, burst, now>>
    /\ UNCHANGED limOthers

\* The first queued task resumes once the lock has been released.
LockGranted(t) ==
    /\ tpc[t] = "waiting"
    /\ lock_holder = NoTask
    /\ lock_waiters # <<>> /\ Head(lock_waiters) = t
    /\ lock_waiters' = Tail(lock_waiters)
    /\ acquire_body(t)
    /\ UNCHANGED <<rate, burst, now>>
    /\ UNCHANGED limOthers

\* A sleeper that wakes and returns without leaving the lock.
SleepDone_KeepLock(t) ==
    /\ tpc[t] = "sleeping"
    /\ now >= wake[t]
    /\ tokens' = 0
    /\ tpc' = [tpc EXCEPT ![t] = "done"]
    /\ returned_at' = [returned_at EXCEPT ![t] = now]
    /\ UNCHANGED <<rate, burst, last_update, now, lock_holder, lock_waiters, wake,
                   wait_time, entered_at, order>>
    /\ UNCHANGED limOthers

\* asyncio.sleep(wait_time) is over: line 90, then the lock is released.
SleepDone(t) ==
    /\ tpc[t] = "sleeping"
    /\ now >= wake[t]
    /\ tokens' = 0
    /\ lock_holder' = NoTask
    /\ tpc' = [tpc EXCEPT ![t] = "done"]
    /\ returned_at' = [returned_at EXCEPT ![t] = now]
    /\ UNCHANGED <<rate, burst, last_update, now, lock_waiters, wake,
                   wait_time, entered_at, order>>
    /\ UNCHANGED limOthers

\* The clock advances; it keeps running while a sleeper has not reached its
\* wake time.
Tick ==
    /\ \/ now < MaxTime
       \/ \E t \in Tasks : tpc[t] = "sleeping" /\ wake[t] > now
    /\ now' = now + 1
    /\ UNCHANGED <<rate, burst, tokens, last_update, lock_holder, lock_waiters,
                   tpc, wake, wait_time, entered_at, order, returned_at>>
    /\ UNCHANGED limOthers

LimInit ==
    /\ \E r \in Rates, b \in Bursts :
          LET l == TokenBucketRateLimiter(r, b) IN
          /\ rate = l.rate /\ burst = l.burst
          /\ tokens = l.tokens /\ last_update = l.last_update
    /\ LimTasksQuiet

InitLimiter ==
    /\ LimInit /\ RunQuiet /\ WinQuiet /\ TrQuiet /\ HttpQuiet /\ ExQuiet
    /\ CacheQuiet /\ FltQuiet /\ LambdaQuiet

NextLimiter ==
    \/ \E t \in Tasks : AcquireCall(t)
    \/ \E t \in Tasks : LockGranted(t)
    \/ \E t \in Tasks : SleepDone(t)
    \/ Tick

SpecLimiter == InitLimiter /\ [][NextLimiter]_vars

\* The event loop runs every task that can run and time passes.
SpecLimiterFair ==
    /\ SpecLimiter
    /\ WF_vars(Tick)
    /\ \A t \in Tasks : WF_vars(LockGranted(t)) /\ WF_vars(SleepDone(t))

\* ------------------------------------------------------- rate limiter claims
\* Position of task t in the order of calls that got the lock.
CallIndex(t) == CHOOSE i \in 1..Len(order) : order[i] = t

Entered(t) == entered_at[t] # Never

\* C11: with no time elapsing between calls (every call reads the clock at
\* the limiter's creation time), the first `burst` calls return without
\* sleeping and call number burst + 1 computes a sleep of 1/rate seconds.
C11_BurstThenThrottle ==
    \A t \in Tasks :
        Entered(t) /\ entered_at[t] = 0 =>
            /\ CallIndex(t) <= burst =>
                  wait_time[t] = 0 /\ returned_at[t] = 0
            /\ CallIndex(t) = burst + 1 =>
                  /\ wait_time[t] * rate = TicksPerSecond
                  /\ wake[t] = wait_time[t]
                  /\ returned_at[t] = Never \/ returned_at[t] >= wake[t]

C11_Witness ==
    \E t \in Tasks :
        /\ Entered(t) /\ entered_at[t] = 0
        /\ CallIndex(t) = burst + 1
        /\ tpc[t] = "done"
        /\ wait_time[t] * rate = TicksPerSecond

Returned(t) == {k \in Tasks : returned_at[k] # Never /\ returned_at[k] <= t}

\* C12: at every time t since the limiter was created, the number of
\* acquire() calls that have returned is at most burst + rate * t.
C12_RateBound ==
    \A t \in 0..now :
        Cardinality(Returned(t)) * TicksPerSecond
            <= burst * TicksPerSecond + rate * t

InCritical == {t \in Tasks : tpc[t] = "sleeping"}

\* C13: at most one task is between reading and writing tokens/last_update,
\* a sleeper included, and while a task sleeps inside the lock nobody else
\* reads or writes the token state.
C13_Serialized ==
    /\ [](Cardinality(InCritical) <= 1)
    /\ [](\A t \in InCritical : lock_holder = t)
    /\ [][\A t \in Tasks :
            tpc[t] = "sleeping" /\ tpc'[t] = "sleeping" =>
                /\ tokens' = tokens /\ last_update' = last_update
                /\ order' = order]_vars

C13_Witness ==
    \E t, u \in Tasks :
        /\ tpc[t] = "sleeping" /\ lock_holder = t
        /\ tpc[u] = "waiting"
        /\ now > entered_at[t]

\* C14: every call of acquire() eventually returns, whether it is queued on
\* the lock or asleep inside it.
C14_AcquireReturns ==
    \A t \in Tasks : (tpc[t] \in {"waiting", "sleeping"}) ~> (tpc[t] = "done")

C14_Witness ==
    /\ \A t \in Tasks : tpc[t] = "done"
    /\ \E t \in Tasks : wait_time[t] > 0 /\ entered_at[t] > 0
    /\ Len(order) = NumTasks

\* C39: in every reachable state of a limiter, under any interleaving of
\* acquire() calls and any passage of time, 0 <= tokens <= burst.
C39_TokensWithinBucket ==
    /\ 0 <= tokens
    /\ tokens <= burst * TicksPerSecond

\* A call made long enough after the first one for the refill to overshoot
\* the bucket: it found the bucket full, no fuller, and took one token.
C39_Witness ==
    /\ Len(order) = 2
    /\ entered_at[order[1]] = 0
    /\ entered_at[order[2]] * rate > TicksPerSecond
    /\ tpc[order[2]] = "done"
    /\ tokens = (burst - 1) * TicksPerSecond

\* ------------------------------------------------------------ HTTP responses
\* Largest Retry-After value the upstream sends, in seconds.
MaxRetryAfter == 2
\* int(resp.headers.get("Retry-After", 5)): the wait when the header is absent.
DefaultRetryAfter == 5
\* for attempt in range(3)
BulkAttempts == 3
\* stop_after_attempt(8)
ClientAttempts == 8
\* wait_exponential(..., max=60)
BackoffCap == 60

\* What the upstream can answer to one request. A 429 comes with or without
\* a Retry-After header (whole seconds); 503 stands for the 5xx statuses
\* and 404 for the 4xx statuses other than 429.
Responses ==
    {[kind |-> k, retry_after |-> None] :
        k \in {"429", "503", "404", "timeout", "client_error", "200"}}
    \cup {[kind |-> "429", retry_after |-> n] : n \in 0..MaxRetryAfter}

RECURSIVE Pow2(_)
Pow2(n) == IF n = 0 THEN 1 ELSE 2 * Pow2(n - 1)

Last(sq) == sq[Len(sq)]

\* ------------------------------------------------------ fetch_year_all_data
\* One iteration of the loop whose 429 wait is the Retry-After value plus
\* the exponential backoff.
fetch_attempt_BackoffAdded(a, resp) ==
    CASE resp.kind = "429" ->
            [slept |-> (IF resp.retry_after = None THEN DefaultRetryAfter
                        ELSE resp.retry_after) + Pow2(a),
             next |-> "continue"]
      [] resp.kind \in {"503", "404"} -> [slept |-> 0, next |-> "empty"]
      [] resp.kind = "200" -> [slept |-> 0, next |-> "records"]
      [] OTHER ->
            IF a < 2 THEN [slept |-> Pow2(a), next |-> "continue"]
            ELSE [slept |-> 0, next |-> "empty"]

\* One iteration of the loop that backs off and tries again after any
\* status other than 200.
fetch_attempt_RetryStatus(a, resp) ==
    CASE resp.kind = "429" ->
            [slept |-> IF resp.retry_after = None THEN DefaultRetryAfter
                       ELSE resp.retry_after,
             next |-> "continue"]
      [] resp.kind = "200" -> [slept |-> 0, next |-> "records"]
      [] OTHER ->
            IF a < 2 THEN [slept |-> Pow2(a), next |-> "continue"]
            ELSE [slept |-> 0, next |-> "empty"]

\* One iteration of the loop of fetch_year_all_data (and of _fetch_year_bulk,
\* which has the same loop) for attempt a and the response it got: the
\* seconds slept and whether the loop continues or the function returns.
fetch_attempt(a, resp) ==
    CASE resp.kind = "429" ->
            [slept |-> IF resp.retry_after = None THEN DefaultRetryAfter
                       ELSE resp.retry_after,
             next |-> "continue"]
      [] resp.kind \in {"503", "404"} -> [slept |-> 0, next |-> "empty"]
      [] resp.kind = "200" -> [slept |-> 0, next |-> "records"]
      [] OTHER ->
            IF a < 2 THEN [slept |-> Pow2(a), next |-> "continue"]
            ELSE [slept |-> 0, next |-> "empty"]

httpOthers ==
    <<runVars, winVars, trVars, limVars, exVars, cacheVars, fltVars,
      lambdaVars>>
gjVars == <<gj_requests, gj_first, gj_last, gj_last_sleep, gj_slept, gj_result>>
fetchVars == <<f_pc, acquired, attempt, fetch_log, fetch_result>>

\* await rate_limiter.acquire(), once, before the loop
FetchAcquire ==
    /\ callee = "fetch_year_all_data"
    /\ f_pc = "acquire"
    /\ acquired' = acquired + 1
    /\ f_pc' = "loop"
    /\ UNCHANGED <<callee, attempt, fetch_log, fetch_result>>
    /\ UNCHANGED gjVars
    /\ UNCHANGED httpOthers

\* A loop that goes on for as long as the upstream asks to retry.
FetchAttempt_NoBound(resp) ==
    /\ callee = "fetch_year_all_data"
    /\ f_pc = "loop"
    /\ LET out == fetch_attempt(0, resp) IN
       /\ fetch_log' = Append(fetch_log,
                              [attempt |-> attempt, resp |-> resp, slept |-> out.slept])
       /\ attempt' = attempt + 1
       /\ IF out.next = "continue"
             THEN UNCHANGED <<f_pc, fetch_result>>
             ELSE f_pc' = "returned" /\ fetch_result' = out.next
    /\ UNCHANGED <<callee, acquired>>
    /\ UNCHANGED gjVars
    /\ UNCHANGED httpOthers

\* One iteration of `for attempt in range(3)`: one request, its response,
\* the sleep, and the return when the iteration returns or was the last.
FetchAttempt(resp) ==
    /\ callee = "fetch_year_all_data"
    /\ f_pc = "loop"
    /\ attempt < BulkAttempts
    /\ LET out == fetch_attempt(attempt, resp) IN
       /\ fetch_log' = Append(fetch_log,
                              [attempt |-> attempt, resp |-> resp, slept |-> out.slept])
       /\ attempt' = attempt + 1
       /\ IF out.next = "continue"
             THEN IF attempt + 1 < BulkAttempts
                     THEN UNCHANGED <<f_pc, fetch_result>>
                     ELSE f_pc' = "returned" /\ fetch_result' = "empty"
             ELSE f_pc' = "returned" /\ fetch_result' = out.next
    /\ UNCHANGED <<callee, acquired>>
    /\ UNCHANGED gjVars
    /\ UNCHANGED httpOthers

\* --------------------------------------------------------- GFNClient.get_json
\* _retryable(exc) for the exception that the response makes get_json raise:
\* requests.Timeout, requests.ConnectionError, or an HTTPError whose status
\* is 429 or one of the listed 5xx.
retryable(resp) == resp.kind \in {"timeout", "client_error", "429", "503"}

\* wait_exponential(multiplier=1, min=1, max=60) after attempt number n
wait_exponential(n) == Max(1, Min(Pow2(n - 1), BackoffCap))

\* time.sleep(int(retry_after)) inside get_json, for a 429 with the header
retry_after_sleep(resp) ==
    IF resp.kind = "429" /\ resp.retry_after # None THEN resp.retry_after ELSE 0

\* One attempt of the @retry-wrapped get_json: the request, the Retry-After
\* sleep, raise_for_status, and tenacity's decision: return, re-raise (not
\* retryable, or attempt 8), or wait and go round again.
GetJsonAttempt(resp) ==
    /\ callee = "get_json"
    /\ gj_result = "none"
    /\ gj_requests < ClientAttempts
    /\ gj_requests' = gj_requests + 1
    /\ gj_first' = IF gj_requests = 0 THEN resp ELSE gj_first
    /\ gj_last' = resp
    /\ LET in_call == retry_after_sleep(resp)
           again == /\ resp.kind # "200" /\ retryable(resp)
                    /\ gj_requests + 1 < ClientAttempts
           backoff == IF again THEN wait_exponential(gj_requests + 1) ELSE 0
       IN /\ gj_last_sleep' = <<in_call, backoff>>
          /\ gj_slept' = gj_slept + in_call + backoff
          /\ gj_result' = IF resp.kind = "200" THEN "json"
                          ELSE IF again THEN "none" ELSE "raised"
    /\ UNCHANGED callee
    /\ UNCHANGED fetchVars
    /\ UNCHANGED httpOthers

HttpInit ==
    /\ callee \in {"fetch_year_all_data", "get_json"}
    /\ f_pc = "acquire" /\ acquired = 0 /\ attempt = 0
    /\ fetch_log = <<>> /\ fetch_result = "none"
    /\ gj_requests = 0 /\ gj_first = NoResponse /\ gj_last = NoResponse
    /\ gj_last_sleep = <<0, 0>> /\ gj_slept = 0 /\ gj_result = "none"

InitHttp ==
    /\ HttpInit /\ RunQuiet /\ WinQuiet /\ TrQuiet /\ LimQuiet /\ ExQuiet
    /\ CacheQuiet /\ FltQuiet /\ LambdaQuiet

NextHttp ==
    \/ FetchAcquire
    \/ \E resp \in Responses : FetchAttempt(resp)
    \/ \E resp \in Responses : GetJsonAttempt(resp)

\* One call of fetch_year_all_data or of get_json against an upstream that
\* answers each request in any of the ways of Responses.
SpecHttp == InitHttp /\ [][NextHttp]_vars

\* ------------------------------------------------------------ HTTP claims
\* C15: one call of fetch_year_all_data makes at most 3 requests and has
\* returned once the third is answered, whatever the responses.
C15_AtMostThreeRequests ==
    /\ Len(fetch_log) <= 3
    /\ attempt = Len(fetch_log)
    /\ Len(fetch_log) = 3 => f_pc = "returned" /\ fetch_result # "none"

C15_Witness ==
    /\ Len(fetch_log) = 3 /\ f_pc = "returned"
    /\ \A i \in 1..3 : fetch_log[i].resp.kind \in {"429", "timeout", "client_error"}

\* The call went on to another request after request number i.
NextAttemptMade(i) == Len(fetch_log) > i

\* C16: after a 429 the bulk fetch sleeps exactly the Retry-After seconds
\* (no backoff added) and then tries again; after a timeout or connection
\* error it sleeps 2^attempt seconds (1, then 2) and tries again.
C16_RetryAfterExact ==
    \A i \in 1..Len(fetch_log) :
        LET e == fetch_log[i] IN
        /\ e.resp.kind = "429" /\ e.resp.retry_after # None =>
              /\ e.slept = e.resp.retry_after
              /\ i < 3 /\ f_pc = "returned" => NextAttemptMade(i)
        /\ e.resp.kind \in {"timeout", "client_error"} /\ i < 3 =>
              /\ e.slept = Pow2(i - 1)
              /\ e.slept = IF i = 1 THEN 1 ELSE 2
              /\ f_pc = "returned" => NextAttemptMade(i)

C16_Witness ==
    /\ Len(fetch_log) = 3
    /\ fetch_log[1].resp = [kind |-> "429", retry_after |-> MaxRetryAfter]
    /\ fetch_log[1].slept = MaxRetryAfter
    /\ fetch_log[2].resp.kind = "timeout" /\ fetch_log[2].slept = 2
    /\ fetch_result = "records"

\* C17: in get_json a single 429 with Retry-After n followed by a 200 makes
\* the client wait n seconds in total before the successful attempt.
C17_RetryAfterReplacesBackoff ==
    /\ gj_requests = 2 /\ gj_result = "json"
    /\ gj_first.kind = "429" /\ gj_first.retry_after # None
    => gj_slept = gj_first.retry_after

\* C18: a 5xx response is retried: the bulk fetch returns an empty list
\* after a 5xx only when that was its third request.
C18_Retries5xx ==
    /\ f_pc = "returned" /\ fetch_log # <<>>
    /\ Last(fetch_log).resp.kind = "503"
    => Len(fetch_log) = 3

\* C19: a 4xx other than 429 ends the call: the bulk fetch returns without
\* a sleep or a further request, and get_json raises without a sleep or a
\* further request.
C19_No4xxRetry ==
    /\ \A i \in 1..Len(fetch_log) :
          fetch_log[i].resp.kind = "404" =>
              /\ i = Len(fetch_log)
              /\ fetch_log[i].slept = 0
              /\ f_pc = "returned" /\ fetch_result = "empty"
    /\ gj_last.kind = "404" =>
          /\ gj_result = "raised"
          /\ gj_last_sleep = <<0, 0>>

C19_Witness ==
    \/ /\ Len(fetch_log) = 2 /\ Last(fetch_log).resp.kind = "404"
       /\ f_pc = "returned"
    \/ /\ gj_requests = 2 /\ gj_last.kind = "404" /\ gj_result = "raised"

\* C37: every request that fetch_year_all_data sends, retries included, is
\* preceded by its own token acquisition: the number of requests sent never
\* exceeds the number of tokens granted.
C37_RequestsWithinTokens ==
    callee = "fetch_year_all_data" => Len(fetch_log) <= acquired

\* ------------------------------------------------------------ extract_all_data
\* ExtractionConfig.parallel_year_batches
parallel_year_batches == 3
\* asyncio.Semaphore(3) of _extract_bulk
SemaphoreSlots == 3

\* The two extract functions: extract_all_data (pipeline_async.py, used by
\* the runner) and _extract_bulk (lambda_handlers.py, used by handler_extract).
ExtractImpls == {"extract_all_data", "_extract_bulk"}

\* years = list(range(start_year, end_year + 1))
ExYears == YearRange(ex_args.start_year, ex_args.end_year)

\* The years whose fetch tasks are gathered together: in fetch_years_parallel
\* the slice years[i:i + batch_size], in _extract_bulk every year.
BatchYears ==
    IF ex_args.impl = "_extract_bulk" THEN ExYears
    ELSE {y \in ExYears :
            /\ y - ex_args.start_year >= ex_batch
            /\ y - ex_args.start_year < ex_batch + ex_args.batch_size}

\* Fetch tasks that have started and not returned.
InFlight == {y \in Years : yr[y].attempt > 0 /\ yr[y].result = "none"}

\* The years of a set in ascending order, as a sequence.
RECURSIVE Ascending(_)
Ascending(ys) ==
    IF ys = {} THEN <<>>
    ELSE LET m == CHOOSE y \in ys : \A z \in ys : y <= z
         IN <<m>> \o Ascending(ys \ {m})

\* The years of a sequence that are in a set, in the order of the sequence.
Restrict(sq, ys) == SelectSeq(sq, LAMBDA y : y \in ys)

\* What the upstream answers to the bulk request of a year (the length of a
\* Retry-After wait plays no part in what extraction returns).
ExtractResponses == {r \in Responses : r.retry_after = None}

exOthers ==
    <<runVars, winVars, trVars, limVars, httpVars, cacheVars, fltVars,
      lambdaVars>>

\* The extract function is called.
ExtractCall ==
    /\ ex_pc = "idle"
    /\ ex_pc' = "discover"
    /\ UNCHANGED <<ex_args, discovered, countries_requested, ex_batch, yr,
                   completed, all_records, ex_raised>>
    /\ UNCHANGED exOthers

\* get_available_record_types: the types of the sample year, or failing
\* those the ones of the /types endpoint; _discover_record_types: the types
\* of the sample year.
discover(impl, types_ok, sample_ok) ==
    IF impl = "extract_all_data"
    THEN IF sample_ok \/ types_ok THEN "found" ELSE "empty"
    ELSE IF sample_ok THEN "found" ELSE "empty"

\* A discovery step after which the extraction goes on whatever was found.
Discover_GoOn(types_ok, sample_ok) ==
    /\ ex_pc = "discover"
    /\ discovered' = discover(ex_args.impl, types_ok, sample_ok)
    /\ ex_pc' = "countries"
    /\ UNCHANGED <<ex_args, countries_requested, ex_batch, yr, completed,
                   all_records, ex_raised>>
    /\ UNCHANGED exOthers

\* Step 1: discovery. extract_all_data raises ValueError when no type was
\* found; _extract_bulk logs the number found and goes on.
Discover(types_ok, sample_ok) ==
    /\ ex_pc = "discover"
    /\ discovered' = discover(ex_args.impl, types_ok, sample_ok)
    /\ IF discovered' = "empty" /\ ex_args.impl = "extract_all_data"
          THEN ex_pc' = "raised" /\ ex_raised' = "discover"
          ELSE ex_pc' = "countries" /\ UNCHANGED ex_raised
    /\ UNCHANGED <<ex_args, countries_requested, ex_batch, yr, completed,
                   all_records>>
    /\ UNCHANGED exOthers

\* Step 2: the /countries request; the function raises when the request or
\* the decoding of its answer fails.
FetchCountries(ok) ==
    /\ ex_pc = "countries"
    /\ countries_requested' = TRUE
    /\ IF ok THEN ex_pc' = "years" /\ UNCHANGED ex_raised
             ELSE ex_pc' = "raised" /\ ex_raised' = "countries"
    /\ UNCHANGED <<ex_args, discovered, ex_batch, yr, completed, all_records>>
    /\ UNCHANGED exOthers

\* What one loop iteration makes of the fetch task of year y.
year_after(y, resp) ==
    LET out == fetch_attempt(yr[y].attempt, resp)
        res == IF out.next = "continue"
                  THEN IF yr[y].attempt + 1 < BulkAttempts THEN "none" ELSE "empty"
                  ELSE out.next
    IN [attempt |-> yr[y].attempt + 1, result |-> res]

\* A fetch task of any year of the range that runs without waiting for its
\* batch.
YearAttempt_AnyYear(y, resp) ==
    /\ ex_pc = "years"
    /\ y \in ExYears
    /\ yr[y].result = "none"
    /\ yr[y].attempt < BulkAttempts
    /\ yr' = [yr EXCEPT ![y] = year_after(y, resp)]
    /\ completed' = IF yr'[y].result # "none" THEN Append(completed, y)
                    ELSE completed
    /\ UNCHANGED <<ex_pc, ex_args, discovered, countries_requested, ex_batch,
                   all_records, ex_raised>>
    /\ UNCHANGED exOthers

\* One loop iteration of the fetch task of year y among the gathered tasks
\* (the tasks interleave at their awaits); in _extract_bulk a task starts
\* only when the semaphore has a free slot.
YearAttempt(y, resp) ==
    /\ ex_pc = "years"
    /\ y \in BatchYears
    /\ yr[y].result = "none"
    /\ yr[y].attempt < BulkAttempts
    /\ \/ ex_args.impl = "extract_all_data"
       \/ yr[y].attempt > 0
       \/ Cardinality(InFlight) < SemaphoreSlots
    /\ yr' = [yr EXCEPT ![y] = year_after(y, resp)]
    /\ completed' = IF yr'[y].result # "none" THEN Append(completed, y)
                    ELSE completed
    /\ UNCHANGED <<ex_pc, ex_args, discovered, countries_requested, ex_batch,
                   all_records, ex_raised>>
    /\ UNCHANGED exOthers

\* Whether the batch that ends now is the last one.
LastBatch ==
    \/ ex_args.impl = "_extract_bulk"
    \/ ex_batch + ex_args.batch_size >= ex_args.end_year - ex_args.start_year + 1

\* A gather that gives up the whole extraction when a year came back empty.
BatchDone_AbortOnEmpty ==
    /\ ex_pc = "years"
    /\ \A y \in BatchYears : yr[y].result # "none"
    /\ IF \E y \in BatchYears : yr[y].result = "empty"
          THEN /\ ex_pc' = "raised" /\ ex_raised' = "years"
               /\ UNCHANGED <<all_records, ex_batch>>
          ELSE /\ all_records' = all_records \o Ascending(BatchYears)
               /\ ex_batch' = ex_batch + ex_args.batch_size
               /\ ex_pc' = IF LastBatch THEN "done" ELSE "years"
               /\ UNCHANGED ex_raised
    /\ UNCHANGED <<ex_args, discovered, countries_requested, yr, completed>>
    /\ UNCHANGED exOthers

\* A collection of the results in the order in which the tasks finished.
BatchDone_CompletionOrder ==
    /\ ex_pc = "years"
    /\ \A y \in BatchYears : yr[y].result # "none"
    /\ all_records' = all_records
          \o Restrict(completed, {y \in BatchYears : yr[y].result = "records"})
    /\ ex_batch' = ex_batch + ex_args.batch_size
    /\ ex_pc' = IF LastBatch THEN "done" ELSE "years"
    /\ UNCHANGED <<ex_args, discovered, countries_requested, yr, completed,
                   ex_raised>>
    /\ UNCHANGED exOthers

\* asyncio.gather has every result, in the order of the tasks: extend
\* all_records by zip(batch, results), go to the next batch, and after the
\* last batch return.
BatchDone ==
    /\ ex_pc = "years"
    /\ \A y \in BatchYears : yr[y].result # "none"
    /\ all_records' = all_records
                        \o Ascending({y \in BatchYears : yr[y].result = "records"})
    /\ ex_batch' = ex_batch + ex_args.batch_size
    /\ ex_pc' = IF LastBatch THEN "done" ELSE "years"
    /\ UNCHANGED <<ex_args, discovered, countries_requested, yr, completed,
                   ex_raised>>
    /\ UNCHANGED exOthers

ExInit ==
    /\ ex_pc = "idle"
    /\ ex_args \in [impl : ExtractImpls, start_year : Years, end_year : Years,
                    batch_size : 1..parallel_year_batches]
    /\ ex_args.impl = "_extract_bulk" => ex_args.batch_size = SemaphoreSlots
    /\ discovered = "none"
    /\ countries_requested = FALSE
    /\ ex_batch = 0
    /\ yr = [y \in Years |-> NotFetched]
    /\ completed = <<>>
    /\ all_records = <<>>
    /\ ex_raised = "none"

InitExtract ==
    /\ ExInit /\ RunQuiet /\ WinQuiet /\ TrQuiet /\ LimQuiet /\ HttpQuiet
    /\ CacheQuiet /\ FltQuiet /\ LambdaQuiet

NextExtract ==
    \/ ExtractCall
    \/ \E types_ok, sample_ok \in BOOLEAN : Discover(types_ok, sample_ok)
    \/ \E ok \in BOOLEAN : FetchCountries(ok)
    \/ \E y \in Years, resp \in ExtractResponses : YearAttempt(y, resp)
    \/ BatchDone

SpecExtract == InitExtract /\ [][NextExtract]_vars

\* ----------------------------------------------------------- extract claims
\* The fetch of year y failed on each of its attempts.
FailedEveryAttempt(y) == yr[y].result = "empty"

\* C20: a year whose fetch fails on every attempt contributes nothing and
\* raises nothing: once record types and countries are fetched the
\* extraction never raises, and it returns exactly the facts of the years of
\* the range whose fetch succeeded, in year order.
C20_YearPartitionTolerant ==
    /\ ex_raised \in {"none", "discover", "countries"}
    /\ ex_pc = "done" =>
          all_records =
              Ascending({y \in YearRange(ex_args.start_year, ex_args.end_year) :
                            ~FailedEveryAttempt(y)})
    /\ \A i \in 1..Len(all_records) : yr[all_records[i]].result = "records"

C20_Witness ==
    /\ ex_pc = "done"
    /\ \E y \in Years :
          /\ yr[y].attempt = BulkAttempts /\ FailedEveryAttempt(y)
          /\ y > ex_args.start_year /\ y < ex_args.end_year
    /\ Len(all_records) = ex_args.end_year - ex_args.start_year

\* ------------------------------------------------ runner claims: quality gate
\* C28: with checks enabled and not warn-only, a run in which a check failed
\* stores no staged batch and loads no destination; with warn-only the run
\* goes on to the load step despite the failed check (unless storing the
\* staged batch itself fails).
C28_QualityGate ==
    /\ [](soda_passed = "failed" /\ cfg.soda = "strict" =>
            /\ ~staged
            /\ loaded_dests = <<>>
            /\ pc = "idle" /\ status \notin {"success", "none"})
    /\ [][pc = "stage" /\ cfg.soda = "warn_only" /\ soda_passed' = "failed" =>
            \/ pc' = "load" /\ staged'
            \/ status' = "failed" /\ errors' = <<"s3">>]_vars

C28_Witness ==
    /\ cfg.soda = "warn_only" /\ soda_passed = "failed"
    /\ staged /\ loaded_dests # <<>>
    /\ status = "success" /\ pc = "idle"

\* C29: run() always returns a result: no exception escapes, the status is
\* one of success, no_data, failed, soda_failed, and a failed result carries
\* the error in its error list.
C29_AlwaysStructuredResult ==
    /\ pc \in {"idle", "extract", "stage", "load", "update"}
    /\ status \in {"none", "success", "no_data", "failed", "soda_failed"}
    /\ status = "failed" => errors # <<>>
    /\ pc = "idle" /\ status = "none" => fetched = {} /\ loaded_dests = <<>>

C29_Witness ==
    /\ pc = "idle" /\ status = "failed" /\ errors = <<"extract">>
    /\ \E p \in Pipelines : last_year[p] # None

\* C30: with checks enabled and not warn-only, a run in which a check failed
\* ends with the dedicated status soda_failed, not with failed.
C30_DedicatedQualityStatus ==
    soda_passed = "failed" /\ cfg.soda = "strict" /\ pc = "idle"
        => status = "soda_failed"

\* ------------------------------------------- extract claims: discovery, order
NoYearRequested == \A y \in Years : yr[y].attempt = 0

C22_LambdaDiscoveryFatal ==
    ex_args.impl = "_extract_bulk" /\ discovered = "empty" =>
        /\ ex_pc = "raised"
        /\ ~countries_requested
        /\ NoYearRequested

\* C23: in fetch_years_parallel the batches run one after the other: every
\* year of an earlier batch has finished, no year of a later batch has
\* started, and at most batch_size fetch tasks are in flight.
C23_BatchesSequential ==
    ex_args.impl = "extract_all_data" =>
        /\ \A y \in ExYears :
              /\ y - ex_args.start_year < ex_batch => yr[y].result # "none"
              /\ y - ex_args.start_year >= ex_batch + ex_args.batch_size =>
                    yr[y].attempt = 0
        /\ InFlight \subseteq BatchYears
        /\ Cardinality(InFlight) <= ex_args.batch_size

C23_Witness ==
    /\ ex_args.impl = "extract_all_data"
    /\ ex_args.batch_size = 2 /\ ex_batch = 0
    /\ Cardinality(InFlight) = 2
    /\ \E y \in ExYears : y \notin BatchYears /\ yr[y].attempt = 0

\* C24: the facts returned are the per-year results in the order of the
\* years list, each year once, whatever the order in which the fetches of a
\* batch finished.
C24_OrderIndependentOfCompletion ==
    /\ ex_pc = "done" =>
          all_records = Ascending({y \in ExYears : yr[y].result = "records"})
    /\ \A i, j \in 1..Len(all_records) :
          i < j => all_records[i] < all_records[j]
    /\ \A i \in 1..Len(all_records) : all_records[i] \in SeqRange(completed)

C24_Witness ==
    /\ ex_pc = "done"
    /\ Len(all_records) >= 2
    /\ \E i, j \in 1..Len(completed) :
          /\ i < j /\ completed[i] > completed[j]
          /\ yr[completed[i]].result = "records"
          /\ yr[completed[j]].result = "records"

\* ------------------------------------------------------ get_record_types_sync
\* Calls of get_record_types_sync and clear_record_types_cache in a row.
MaxCalls == 4

\* The mappings a discovery can give: two non-empty ones and the empty one.
Mappings == {"m1", "m2"}
\* What asyncio.run(_fetch()) does: returns a mapping, or raises.
FetchOutcomes == Mappings \cup {EmptyMapping, "exception"}

cacheOthers ==
    <<runVars, winVars, trVars, limVars, httpVars, exVars, fltVars,
      lambdaVars>>

\* A get_record_types_sync that runs the discovery on every call.
GetRecordTypesSync_NoCache(outcome) ==
    /\ Len(call_log) < MaxCalls
    /\ cached_record_types' =
          IF outcome = "exception" THEN cached_record_types ELSE outcome
    /\ call_log' = Append(call_log,
          [op |-> "call", fetched |-> TRUE,
           result |-> IF outcome \in Mappings THEN outcome ELSE "raise"])
    /\ UNCHANGED cacheOthers

\* get_record_types_sync: return the cache when it is not None; otherwise
\* run the discovery, assign its result to the cache, raise when it is empty
\* and return it otherwise. `outcome` is what the discovery would give.
GetRecordTypesSync(outcome) ==
    /\ Len(call_log) < MaxCalls
    /\ IF cached_record_types # NoCache
          THEN /\ call_log' = Append(call_log,
                      [op |-> "call", fetched |-> FALSE,
                       result |-> cached_record_types])
               /\ UNCHANGED cached_record_types
          ELSE /\ cached_record_types' =
                      IF outcome = "exception" THEN cached_record_types ELSE outcome
               /\ call_log' = Append(call_log,
                      [op |-> "call", fetched |-> TRUE,
                       result |-> IF outcome \in Mappings THEN outcome ELSE "raise"])
    /\ UNCHANGED cacheOthers

\* clear_record_types_cache
ClearRecordTypesCache ==
    /\ Len(call_log) < MaxCalls
    /\ cached_record_types' = NoCache
    /\ call_log' = Append(call_log, [op |-> "clear", fetched |-> FALSE,
                                     result |-> NoCache])
    /\ UNCHANGED cacheOthers

InitCache ==
    /\ CacheQuiet /\ RunQuiet /\ WinQuiet /\ TrQuiet /\ LimQuiet /\ HttpQuiet
    /\ ExQuiet /\ FltQuiet /\ LambdaQuiet

NextCache ==
    \/ \E outcome \in FetchOutcomes : GetRecordTypesSync(outcome)
    \/ ClearRecordTypesCache

SpecCache == InitCache /\ [][NextCache]_vars

\* ------------------------------------------------------------- cache claims
\* No clear_record_types_cache between entries i and j of the log.
NoClearBetween(i, j) == \A k \in i..j : call_log[k].op # "clear"

\* C26: once a call has returned a mapping, every later call before a clear
\* returns the same mapping without a discovery fetch; the first call after
\* a clear runs the discovery again.
C26_CacheUntilCleared ==
    /\ \A i, j \in 1..Len(call_log) :
          /\ i < j /\ NoClearBetween(i, j)
          /\ call_log[i].result # "raise"
          => /\ call_log[j].result = call_log[i].result
             /\ ~call_log[j].fetched
    /\ \A i \in 1..Len(call_log) :
          i > 1 /\ call_log[i].op = "call" /\ call_log[i - 1].op = "clear"
          => call_log[i].fetched

C26_Witness ==
    /\ Len(call_log) = 3
    /\ call_log[1] = [op |-> "call", fetched |-> TRUE, result |-> "m1"]
    /\ call_log[2] = [op |-> "call", fetched |-> FALSE, result |-> "m1"]
    /\ call_log[3].op = "clear"

\* C27: no call of get_record_types_sync returns an empty mapping: each
\* returns a non-empty mapping or raises, also after an earlier call failed.
C27_NeverReturnsEmpty ==
    \A i \in 1..Len(call_log) :
        call_log[i].op = "call" => call_log[i].result \in Mappings \cup {"raise"}

\* ------------------------------------ extract_all_data: filter, record_types
\* The record types of the upstream, in the order sorted() gives them.
TypesSorted == <<"BiocapTotGHA", "EFConsTotGHA">>
RecordTypes == SeqRange(TypesSorted)

\* Facts as fetch_year_all_data returns them: the record_type key is always
\* there, with None when the upstream record had no "record".
ExtractedFacts ==
    {Fact(1, y, rt, None, 100) :
        y \in {2020, 2021}, rt \in RecordTypes \cup {NoneRT}}

\* The record_types argument: None (given FALSE) or a list of types.
FilterArgs == [given : BOOLEAN, types : SUBSET RecordTypes]

FltInputs ==
    [all_records : UNION {[1..n -> ExtractedFacts] : n \in 0..MaxBatch},
     record_types : {f \in FilterArgs : ~f.given => f.types = {}},
     available_types : SUBSET RecordTypes \ {{}}]

\* if record_types: all_records = [r for r in all_records
\*                                 if r["record_type"] in record_types]
apply_filter(recs, f) ==
    IF f.given /\ f.types # {}
    THEN SelectSeq(recs, LAMBDA r : r.record_type \in f.types)
    ELSE recs

\* found_types = {r["record_type"] for r in all_records if r.get("record_type")}
found_types(recs) ==
    {recs[i].record_type : i \in {k \in DOMAIN recs : TruthyRT(recs[k].record_type)}}

\* A record_types list made of the discovered types.
record_types_list_Discovered(found, available) ==
    LET srt == SelectSeq(TypesSorted, LAMBDA t : t \in available)
    IN [i \in DOMAIN srt |-> [record_type |-> srt[i], described |-> TRUE]]

\* [{"record_type": rt, "description": available_types.get(rt, rt)}
\*  for rt in sorted(found_types)]; the description is kept as whether
\* available_types has one.
record_types_list(found, available) ==
    LET srt == SelectSeq(TypesSorted, LAMBDA t : t \in found)
    IN [i \in DOMAIN srt |->
            [record_type |-> srt[i], described |-> srt[i] \in available]]

FltInit ==
    /\ flt_in \in FltInputs
    /\ flt_out = <<>>

\* Lines 499-523 of extract_all_data: filter, collect the types, return.
FilterAndReturn ==
    /\ flt_out = <<>>
    /\ LET kept == apply_filter(flt_in.all_records, flt_in.record_types)
       IN flt_out' = <<[footprint_data |-> kept,
                        record_types |-> record_types_list(
                                            found_types(kept), flt_in.available_types),
                        available_types |-> flt_in.available_types]>>
    /\ UNCHANGED flt_in
    /\ UNCHANGED <<runVars, winVars, trVars, limVars, httpVars, exVars, cacheVars,
                   lambdaVars>>

InitFilter ==
    /\ FltInit /\ RunQuiet /\ WinQuiet /\ TrQuiet /\ LimQuiet /\ HttpQuiet
    /\ ExQuiet /\ CacheQuiet /\ LambdaQuiet

NextFilter == FilterAndReturn

SpecFilter == InitFilter /\ [][NextFilter]_vars

\* Position of a record type in alphabetical order.
TypeRank(t) == CHOOSE i \in DOMAIN TypesSorted : TypesSorted[i] = t

\* C25: with a non-empty record_type filter every returned fact has its
\* record_type in the filter, and in all cases the returned record_types
\* list holds, in sorted order and once each, exactly the record types
\* that occur in the returned facts (a fact without a record type names none).
C25_FilterAndObservedTypes ==
    flt_out # <<>> =>
        LET out == flt_out[1]
            facts == out.footprint_data
            listed == out.record_types
            f == flt_in.record_types
        IN /\ f.given /\ f.types # {} =>
                 /\ \A i \in DOMAIN facts : facts[i].record_type \in f.types
                 /\ facts = SelectSeq(flt_in.all_records,
                                      LAMBDA r : r.record_type \in f.types)
           /\ ~(f.given /\ f.types # {}) => facts = flt_in.all_records
           /\ {listed[i].record_type : i \in DOMAIN listed}
                 = {facts[i].record_type : i \in DOMAIN facts} \cap RecordTypes
           /\ \A i, j \in DOMAIN listed :
                 i < j => TypeRank(listed[i].record_type)
                            < TypeRank(listed[j].record_type)

C25_Witness ==
    /\ flt_out # <<>>
    /\ flt_in.record_types = [given |-> TRUE, types |-> {"BiocapTotGHA"}]
    /\ flt_in.available_types = RecordTypes
    /\ Len(flt_in.all_records) = 2
    /\ flt_in.all_records[1].record_type = "EFConsTotGHA"
    /\ Len(flt_out[1].footprint_data) = 1
    /\ Len(flt_out[1].record_types) = 1

\* -------------------------------------------- handler_load and its sinks
\* handler_load calls made in one behaviour.
MaxLoads == 2

\* What handler_load makes of SNOWFLAKE_ACCOUNT and AWS_LAMBDA_FUNCTION_NAME.
Destinations == {"snowflake", "s3_for_snowpipe", "duckdb"}

\* Raw facts of one country and year: two record types, and a fact whose
\* record_type is null (handler_transform lets it through).
SinkFacts == {Fact(1, 2020, rt, None, 100) : rt \in {"EF", "BC", NoneRT}}

SinkRaw == UNION {[1..n -> SinkFacts] : n \in 0..2}

\* The processed objects handler_load is given: what handler_transform
\* wrote for a raw batch, at an earlier or a later time.
ProcessedBatches == {handler_transform(rw, t) : rw \in SinkRaw, t \in {1, 2}}

\* The tuple of r.get(column) bound to the statement, as a row.
row_of(r) ==
    [country_code |-> IF r.country_code = Missing THEN None ELSE r.country_code,
     year |-> IF r.year = Missing THEN None ELSE r.year,
     record_type |-> get_record_type(r),
     value |-> IF r.value = Missing THEN None ELSE r.value,
     carbon_pct_of_total |-> get_carbon_pct(r),
     transformed_at |-> IF r.transformed_at = Missing THEN None
                        ELSE r.transformed_at]

\* PRIMARY KEY (country_code, year, record_type)
pk(row) == <<row.country_code, row.year, row.record_type>>

\* A key column is NULL.
null_key(row) ==
    row.country_code = None \/ row.year = None \/ row.record_type = NoneRT

\* A plain INSERT into a table without a key.
insert_or_replace_Plain(tbl, row) == Append(tbl, row)

\* INSERT OR REPLACE INTO footprint_data VALUES (...): the row takes the
\* place of the row with its primary key, or is added.
insert_or_replace(tbl, row) ==
    IF \E i \in DOMAIN tbl : pk(tbl[i]) = pk(row)
    THEN [i \in DOMAIN tbl |-> IF pk(tbl[i]) = pk(row) THEN row ELSE tbl[i]]
    ELSE Append(tbl, row)

\* conn.executemany of _load_to_duckdb_bulk from row i on: the statement
\* once per row, until a row fails (a NULL in a primary key column violates
\* NOT NULL; fail_at is the row at which the database fails otherwise).
RECURSIVE duckdb_executemany(_, _, _, _)
duckdb_executemany(tbl, rows, i, fail_at) ==
    IF i > Len(rows) THEN [table |-> tbl, error |-> FALSE]
    ELSE IF i = fail_at \/ null_key(row_of(rows[i]))
    THEN [table |-> tbl, error |-> TRUE]
    ELSE duckdb_executemany(insert_or_replace(tbl, row_of(rows[i])), rows,
                            i + 1, fail_at)

\* ON t.country_code = s.country_code AND t.year = s.year AND
\* t.record_type = s.record_type: SQL equality, never true of a NULL.
merge_on(t, row) == ~null_key(t) /\ ~null_key(row) /\ pk(t) = pk(row)

\* MERGE INTO FOOTPRINT_DATA_RAW ... WHEN MATCHED THEN UPDATE SET ...
\* WHEN NOT MATCHED THEN INSERT ...
merge_row(tbl, row) ==
    IF \E i \in DOMAIN tbl : merge_on(tbl[i], row)
    THEN [i \in DOMAIN tbl |-> IF merge_on(tbl[i], row) THEN row ELSE tbl[i]]
    ELSE Append(tbl, row)

\* cursor.executemany of _load_to_snowflake_bulk from row i on. Whether the
\* key columns of the table reject NULL is the warehouse's (pk_not_null).
RECURSIVE snowflake_executemany(_, _, _, _, _)
snowflake_executemany(tbl, rows, i, fail_at, pk_not_null) ==
    IF i > Len(rows) THEN [table |-> tbl, error |-> FALSE]
    ELSE IF i = fail_at \/ (pk_not_null /\ null_key(row_of(rows[i])))
    THEN [table |-> tbl, error |-> TRUE]
    ELSE snowflake_executemany(merge_row(tbl, row_of(rows[i])), rows,
                               i + 1, fail_at, pk_not_null)

\* _load_to_duckdb_bulk(data) on the table tbl. fail_at = 0: duckdb.connect
\* or CREATE TABLE raises. An exception of executemany leaves the function
\* (nothing catches it); kept tells whether the rows written before it stay.
load_to_duckdb(tbl, data, fail_at, kept) ==
    IF fail_at = 0
    THEN [table |-> tbl, raised |-> TRUE, returned |-> 0, write_ok |-> FALSE]
    ELSE LET r == duckdb_executemany(tbl, data, 1, fail_at) IN
         IF r.error
         THEN [table |-> IF kept THEN r.table ELSE tbl, raised |-> TRUE,
               returned |-> 0, write_ok |-> FALSE]
         ELSE [table |-> r.table, raised |-> FALSE, returned |-> Len(data),
               write_ok |-> TRUE]

\* _load_to_snowflake_bulk(data) on the table tbl: 0 when the connector
\* cannot be imported; connect (fail_at = 0) is outside the try and raises;
\* an exception of execute / executemany is logged, rolled back (kept: the
\* rows that autocommit had already committed stay) and answered with 0.
load_to_snowflake(tbl, data, import_ok, fail_at, kept, pk_not_null) ==
    IF ~import_ok
    THEN [table |-> tbl, raised |-> FALSE, returned |-> 0, write_ok |-> FALSE]
    ELSE IF fail_at = 0
    THEN [table |-> tbl, raised |-> TRUE, returned |-> 0, write_ok |-> FALSE]
    ELSE LET r == snowflake_executemany(tbl, data, 1, fail_at, pk_not_null) IN
         IF r.error
         THEN [table |-> IF kept THEN r.table ELSE tbl, raised |-> FALSE,
               returned |-> 0, write_ok |-> FALSE]
         ELSE [table |-> r.table, raised |-> FALSE, returned |-> Len(data),
               write_ok |-> TRUE]

sinkOthers ==
    <<runVars, winVars, trVars, limVars, httpVars, exVars, cacheVars, fltVars,
      chainVars>>

\* handler_load on an event naming a processed object that holds data: read
\* it, load it into the destination of the environment, return the result.
HandlerLoad(data, import_ok, fail_at, kept, pk_not_null) ==
    /\ Len(load_log) < MaxLoads
    /\ LET out ==
            CASE sink_dest = "snowflake" ->
                    load_to_snowflake(sink_table, data, import_ok, fail_at, kept,
                                      pk_not_null)
              [] sink_dest = "s3_for_snowpipe" ->
                    [table |-> sink_table, raised |-> FALSE,
                     returned |-> Len(data), write_ok |-> TRUE]
              [] OTHER -> load_to_duckdb(sink_table, data, fail_at, kept)
       IN  /\ sink_table' = out.table
           /\ load_result' =
                 IF out.raised THEN [status |-> "raised", records_loaded |-> 0]
                 ELSE [status |-> "success", records_loaded |-> out.returned]
           /\ load_log' = Append(load_log,
                                 [batch |-> data, write_ok |-> out.write_ok])
    /\ UNCHANGED sink_dest
    /\ UNCHANGED sinkOthers

SinkInit ==
    /\ sink_dest \in Destinations
    /\ sink_table = <<>>
    /\ load_log = <<>>
    /\ load_result = [status |-> "none", records_loaded |-> 0]

InitSink ==
    /\ SinkInit /\ ChainQuiet /\ RunQuiet /\ WinQuiet /\ TrQuiet /\ LimQuiet
    /\ HttpQuiet /\ ExQuiet /\ CacheQuiet /\ FltQuiet

NextSink ==
    \E data \in ProcessedBatches, import_ok, kept, pk_not_null \in BOOLEAN :
        \E fail_at \in 0..(Len(data) + 1) :
            HandlerLoad(data, import_ok, fail_at, kept, pk_not_null)

SpecSink == InitSink /\ [][NextSink]_vars

\* ------------------------------------------------------------- sink claims
RowsOf(tbl) == {tbl[i] : i \in DOMAIN tbl}

C32_NewestTransformedAtWins ==
    \A i \in DOMAIN load_log :
        load_log[i].write_ok =>
            \A k \in DOMAIN load_log[i].batch, j \in DOMAIN sink_table :
                (/\ ~null_key(sink_table[j])
                 /\ pk(sink_table[j]) = pk(row_of(load_log[i].batch[k]))) =>
                    sink_table[j].transformed_at
                        >= row_of(load_log[i].batch[k]).transformed_at

\* C33: a sink failure is never reported as success: handler_load returns
\* status success only if the write to the chosen destination succeeded.
C33_FailureNotSuccess ==
    load_log # <<>> /\ ~Last(load_log).write_ok =>
        load_result.status # "success"

\* ------------------------------------------------- the serverless chain
\* Seconds the wall clock runs for.
MaxClock == 2
\* Messages a queue holds at most.
MaxQueue == 2

\* f"raw/footprint/{timestamp:%Y/%m/%d}/data_{timestamp:%H%M%S}.json"
raw_key(t) == <<"raw", t>>

\* s3_key.replace("raw/", "processed/").replace(".json", "_processed.json")
output_key(s3_key) == <<"processed", s3_key[2]>>

\* "s3_key": None
NoKey == <<>>

chainOthers ==
    <<runVars, winVars, trVars, limVars, httpVars, exVars, cacheVars, fltVars,
      sinkVars>>

\* sq without its i-th element.
Without(sq, i) == [k \in 1..(Len(sq) - 1) |-> IF k < i THEN sq[k] ELSE sq[k + 1]]

\* A handler_extract that announces the object before it writes it.
HandlerExtract_SendFirst(extracted, put_ok, send_ok) ==
    /\ Len(transform_queue) < MaxQueue
    /\ CASE extracted = "raised" ->
              /\ chain_result' = [handler |-> "extract", status |-> "raised",
                                  s3_key |-> NoKey]
              /\ UNCHANGED <<s3_objects, transform_queue>>
         [] extracted = "none" ->
              /\ chain_result' = [handler |-> "extract", status |-> "no_data",
                                  s3_key |-> NoKey]
              /\ UNCHANGED <<s3_objects, transform_queue>>
         [] OTHER ->
              /\ transform_queue' = IF send_ok THEN Append(transform_queue,
                                                          raw_key(chain_clock))
                                    ELSE transform_queue
              /\ IF put_ok
                 THEN /\ s3_objects' = s3_objects \cup {raw_key(chain_clock)}
                      /\ chain_result' = [handler |-> "extract",
                            status |-> "success", s3_key |-> raw_key(chain_clock)]
                 ELSE /\ chain_result' = [handler |-> "extract",
                            status |-> "raised", s3_key |-> NoKey]
                      /\ UNCHANGED s3_objects
    /\ UNCHANGED <<load_queue, chain_clock>>
    /\ UNCHANGED chainOthers

\* handler_extract: _extract_bulk raises, returns no facts (no_data) or
\* returns facts; then put_object (its exception leaves the handler), then
\* send_message to gfn-transform-queue (its exception is only logged).
HandlerExtract(extracted, put_ok, send_ok) ==
    /\ Len(transform_queue) < MaxQueue
    /\ CASE extracted = "raised" ->
              /\ chain_result' = [handler |-> "extract", status |-> "raised",
                                  s3_key |-> NoKey]
              /\ UNCHANGED <<s3_objects, transform_queue>>
         [] extracted = "none" ->
              /\ chain_result' = [handler |-> "extract", status |-> "no_data",
                                  s3_key |-> NoKey]
              /\ UNCHANGED <<s3_objects, transform_queue>>
         [] OTHER ->
              IF put_ok
              THEN /\ s3_objects' = s3_objects \cup {raw_key(chain_clock)}
                   /\ transform_queue' =
                         IF send_ok THEN Append(transform_queue,
                                                raw_key(chain_clock))
                         ELSE transform_queue
                   /\ chain_result' = [handler |-> "extract",
                         status |-> "success", s3_key |-> raw_key(chain_clock)]
              ELSE /\ chain_result' = [handler |-> "extract",
                         status |-> "raised", s3_key |-> NoKey]
                   /\ UNCHANGED <<s3_objects, transform_queue>>
    /\ UNCHANGED <<load_queue, chain_clock>>
    /\ UNCHANGED chainOthers

\* handler_transform on the i-th message of gfn-transform-queue (BatchSize
\* 1): get_object (raises when the key is missing or S3 fails), transform,
\* put_object, send_message to gfn-load-queue. The message leaves the queue
\* when the handler returned, unless SQS delivers it again (redelivered);
\* it stays when the handler raised.
HandlerTransformMessage(i, get_ok, put_ok, send_ok, redelivered) ==
    /\ i \in DOMAIN transform_queue
    /\ Len(load_queue) < MaxQueue
    /\ LET s3_key == transform_queue[i] IN
       IF s3_key \notin s3_objects \/ ~get_ok \/ ~put_ok
       THEN /\ chain_result' = [handler |-> "transform", status |-> "raised",
                                s3_key |-> NoKey]
            /\ UNCHANGED <<s3_objects, transform_queue, load_queue>>
       ELSE /\ s3_objects' = s3_objects \cup {output_key(s3_key)}
            /\ load_queue' = IF send_ok THEN Append(load_queue, output_key(s3_key))
                             ELSE load_queue
            /\ transform_queue' = IF redelivered THEN transform_queue
                                  ELSE Without(transform_queue, i)
            /\ chain_result' = [handler |-> "transform", status |-> "success",
                                s3_key |-> output_key(s3_key)]
    /\ UNCHANGED chain_clock
    /\ UNCHANGED chainOthers

\* The gfn-load trigger hands the i-th message of gfn-load-queue to
\* handler_load and deletes it once the handler has returned.
LoadQueueReceive(i) ==
    /\ i \in DOMAIN load_queue
    /\ load_queue[i] \in s3_objects
    /\ load_queue' = Without(load_queue, i)
    /\ UNCHANGED <<s3_objects, transform_queue, chain_clock, chain_result>>
    /\ UNCHANGED chainOthers

\* A second passes.
ChainTick ==
    /\ chain_clock < MaxClock
    /\ chain_clock' = chain_clock + 1
    /\ UNCHANGED <<s3_objects, transform_queue, load_queue, chain_result>>
    /\ UNCHANGED chainOthers

InitChain ==
    /\ ChainQuiet /\ SinkQuiet /\ RunQuiet /\ WinQuiet /\ TrQuiet /\ LimQuiet
    /\ HttpQuiet /\ ExQuiet /\ CacheQuiet /\ FltQuiet

NextChain ==
    \/ \E extracted \in {"raised", "none", "facts"}, put_ok, send_ok \in BOOLEAN :
          HandlerExtract(extracted, put_ok, send_ok)
    \/ \E i \in 1..MaxQueue, get_ok, put_ok, send_ok, redelivered \in BOOLEAN :
          HandlerTransformMessage(i, get_ok, put_ok, send_ok, redelivered)
    \/ \E i \in 1..MaxQueue : LoadQueueReceive(i)
    \/ ChainTick

SpecChain == InitChain /\ [][NextChain]_vars

\* C38: handler_extract and handler_transform send the next stage's message
\* only after the object it names has been written, so every message in the
\* transform or load queue names an existing object; and a handler_extract
\* that obtains no facts returns no_data, writes no object and sends no
\* message.
C38_MessagesNameObjects ==
    /\ [](\A i \in DOMAIN transform_queue : transform_queue[i] \in s3_objects)
    /\ [](\A i \in DOMAIN load_queue : load_queue[i] \in s3_objects)
    /\ [][chain_result'.handler = "extract" /\ chain_result'.status = "no_data"
            => /\ s3_objects' = s3_objects
               /\ transform_queue' = transform_queue
               /\ chain_result'.s3_key = NoKey]_vars

\* Both queues hold a message, and the last extraction found no facts.
C38_Witness ==
    /\ transform_queue # <<>> /\ load_queue # <<>>
    /\ chain_result.handler = "extract" /\ chain_result.status = "no_data"
    /\ Cardinality(s3_objects) >= 2

====
